---- MODULE Spec2Model ----
(***************************************************************************)
(* DeDox document pipeline: ProcessorRegistry, Job / Document models,      *)
(* PipelineOrchestrator.process_document / retry_job, the JobWorker entry  *)
(* point and the LLMExtractor stage, as state machines.                    *)
(***************************************************************************)
EXTENDS Integers, Sequences, FiniteSets, TLC

VARIABLES
    processors,   \* ProcessorRegistry._processors : stage -> processor class
    settings,     \* the settings the stages read (llm.is_vision_model and llm.skip_ocr_for_vl)
    llm,          \* how the language-model endpoint answers in this behaviour
    faults,       \* may a repository call or a stage callback raise in this behaviour
    jobs_table,   \* the persisted jobs rows of the document (at most one)
    docs_table,   \* the persisted documents row (status and copied fields)
    job,          \* the in-memory Job object of the current / last run
    document,     \* the in-memory Document object of the current / last run
    context,      \* the ProcessorContext of the current run
    ordered,      \* the list get_ordered_processors returned to the current run
    idx,          \* position of the for loop over ordered (1-based)
    pc,           \* where the control is
    caller,       \* who called process_document: worker, retry, background
    events,       \* the calls made on stages by the current run, in order
    rollbacks,    \* arguments of _update_paperless_tags_on_failure in the current run
    archive_tags, \* tags of the document in the archive
    cleanup_result, \* how the last processor.cleanup call of the run ended
    now,          \* the clock datetime.utcnow() reads
    sched,        \* the other task of the event loop: which task runs, and the
                  \* suspended task's objects
    urgency_call, \* one call of UrgencyCalculator.calculate: its arguments, the
                  \* position of its loop over the rules and what it returned
    matcher_call, \* one call of SenderMatcher.match_sender: its argument, the
                  \* archive it reads, its locals and what it returned
    finalize_call, \* calls of Finalizer.process on one document: the context, the
                  \* archive (entities and the tags of the document), the
                  \* create calls of the run
    pool,         \* one call of JobWorker.process_all_pending: the semaphore, the
                  \* tasks given to asyncio.gather and the processed counter
    worker_call,  \* the process_job call of a worker that other requests
                  \* interleave with: its argument, the Job it fetched, how it ended
    llm_call,     \* one extraction of LLMExtractor: its settings, the requests of
                  \* its model calls and what it returned
    registry_call, \* a ProcessorRegistry of its own: _processors, the calls made
                  \* on it so far and the list get_ordered_processors returned
    webhook_call, \* the background tasks of the webhook deliveries: where each
                  \* one is, and the documents and jobs rows they created
    tag_call      \* the add_tag_to_document / remove_tag_from_document calls that
                  \* run on one archive document, and the tags of that document

vars == <<processors, settings, llm, faults, jobs_table, docs_table, job, document,
          context, ordered, idx, pc, caller, events, rollbacks, archive_tags,
          cleanup_result, now, sched, urgency_call, matcher_call,
          finalize_call, pool, worker_call, llm_call,
                   registry_call, webhook_call, tag_call>>

\* the state of one pipeline run and of the tables it writes
pipeline_vars == <<processors, settings, llm, faults, jobs_table, docs_table, job,
                   document, context, ordered, idx, pc, caller, events, rollbacks,
                   archive_tags, cleanup_result>>

\* the calls of the helpers that are modelled on their own
helper_vars == <<urgency_call, matcher_call, finalize_call, pool, worker_call,
                 llm_call,
                   registry_call, webhook_call, tag_call>>

\* what the actions of one pipeline run leave alone
other_vars == <<now, sched, helper_vars>>

(***************************************************************************)
(* Bounds                                                                  *)
(***************************************************************************)
MaxRetriesCap == 1          \* largest max_retries of the persisted Job a retry is asked for
MaxClock == 1               \* last instant of the clock
MaxLLMRetries == 2           \* largest llm.max_retries of the settings
MaxRegistryCalls == 3        \* calls made on the registry
MaxCalls == 2                \* process_job calls of the worker that is interleaved
MaxPolls == 1               \* process_job calls the worker loop makes on the Job

(***************************************************************************)
(* Program constants                                                       *)
(***************************************************************************)
DefaultMaxRetries == 3     \* Job.max_retries
ConfidenceThreshold == 60   \* settings.ocr.confidence_threshold
VLConfidence == 95          \* ocr_confidence the extractor writes in vision mode
ArchiveId == 7              \* the archive id of a document that is in the archive
NoId == 0                   \* paperless_id is None

\* ProcessorRegistry._stage_order
StageOrder ==
    <<"image_processing", "ocr", "paperless_upload", "metadata_extraction", "finalization">>

Stages == {StageOrder[i] : i \in 1..Len(StageOrder)}

\* Job.start_stage: stage_progress
stage_progress(stage) ==
    CASE stage = "pending" -> 0
      [] stage = "image_processing" -> 20
      [] stage = "ocr" -> 40
      [] stage = "paperless_upload" -> 55
      [] stage = "metadata_extraction" -> 75
      [] stage = "finalization" -> 90
      [] stage = "completed" -> 100
      [] OTHER -> 0

\* The processor classes: the five that register_all_processors registers and,
\* for three of the stages, one further subclass of BaseProcessor (a user or test
\* class) whose hooks may raise.
BuiltinClasses ==
    {"ImageProcessor", "OCRProcessor", "PaperlessArchiver", "LLMExtractor", "Finalizer"}

CustomClasses ==
    {"CustomImage", "CustomOCR", "CustomFinalizer"}

ProcessorClasses == BuiltinClasses \cup CustomClasses

\* BaseProcessor.stage of each class
StageOf(cls) ==
    CASE cls \in {"ImageProcessor", "CustomImage"} -> "image_processing"
      [] cls \in {"OCRProcessor", "CustomOCR"} -> "ocr"
      [] cls = "PaperlessArchiver" -> "paperless_upload"
      [] cls = "LLMExtractor" -> "metadata_extraction"
      [] cls \in {"Finalizer", "CustomFinalizer"} -> "finalization"

(***************************************************************************)
(* ProcessorRegistry                                                       *)
(***************************************************************************)
\* a register that keeps the processor a stage has
RegistryRegisterKeepingFirst(procs, cls) ==
    [s \in (DOMAIN procs) \cup {StageOf(cls)} |->
        IF s \in DOMAIN procs THEN procs[s] ELSE cls]

\* ProcessorRegistry.register: self._processors[stage] = processor_class
RegistryRegister(procs, cls) ==
    [s \in (DOMAIN procs) \cup {StageOf(cls)} |->
        IF s = StageOf(cls) THEN cls ELSE procs[s]]

\* ProcessorRegistry.unregister: del self._processors[stage] if it is there
RegistryUnregister(procs, stage) ==
    IF (DOMAIN procs) \ {stage} = {} THEN <<>>
    ELSE [s \in (DOMAIN procs) \ {stage} |-> procs[s]]

\* ProcessorRegistry.clear
RegistryClear(procs) == <<>>

\* ProcessorRegistry.get_ordered_processors
RECURSIVE OrderedFrom(_, _)
OrderedFrom(procs, i) ==
    IF i > Len(StageOrder) THEN <<>>
    ELSE IF StageOrder[i] \in DOMAIN procs
         THEN <<procs[StageOrder[i]]>> \o OrderedFrom(procs, i + 1)
         ELSE OrderedFrom(procs, i + 1)

\* the processors in the reverse of the fixed order
get_ordered_processors_reversed(procs) ==
    LET o == OrderedFrom(procs, 1)
    IN [i \in 1..Len(o) |-> o[Len(o) + 1 - i]]

get_ordered_processors(procs) == OrderedFrom(procs, 1)

(***************************************************************************)
(* Job model                                                               *)
(***************************************************************************)
JobStatuses == {"queued", "processing", "completed", "failed", "review_required", "cancelled"}
TerminalStatuses == {"completed", "failed", "review_required", "cancelled"}

\* Job.result = {} (Field default_factory=dict)
EmptyResult == [empty |-> TRUE, paperless_id |-> NoId, ocr_confidence |-> -1, metadata |-> {}]

\* Job(...) with the field defaults of the model class
NewJob(maxr) ==
    [status |-> "queued", current_stage |-> "pending", progress_percent |-> 0,
     stages |-> <<>>, skipped_stages |-> <<>>, started_at |-> FALSE,
     completed_at |-> FALSE, result |-> EmptyResult, errors |-> <<>>,
     retry_count |-> 0, max_retries |-> maxr]

\* no Job object is held
NoJobObject == [NewJob(0) EXCEPT !.status = "none"]

\* JobProgress(stage=stage, started_at=now, message=message)
JobProgress(stage, t) ==
    [stage |-> stage, started_at |-> t, completed_at |-> FALSE, error |-> "none"]

\* a start that leaves current_stage where it was
start_stage_keeping_current(j, stage, t) ==
    [j EXCEPT !.status = "processing",
              !.started_at = TRUE,
              !.progress_percent = stage_progress(stage),
              !.stages = Append(@, JobProgress(stage, t))]

\* Job.start_stage
start_stage(j, stage, t) ==
    [j EXCEPT !.current_stage = stage,
              !.status = "processing",
              !.started_at = TRUE,
              !.progress_percent = stage_progress(stage),
              !.stages = Append(@, JobProgress(stage, t))]

\* Job.complete_stage
complete_stage(j) ==
    IF j.stages # <<>>
    THEN [j EXCEPT !.stages[Len(j.stages)].completed_at = TRUE]
    ELSE j

\* Job.fail_stage
fail_stage(j, error) ==
    LET j1 == IF j.stages # <<>>
              THEN [j EXCEPT !.stages[Len(j.stages)].completed_at = TRUE,
                             !.stages[Len(j.stages)].error = error]
              ELSE j
    IN [j1 EXCEPT !.errors = Append(@, error)]

\* a skip that also moves current_stage and progress
skip_stage_moving(j, stage) ==
    [j EXCEPT !.skipped_stages = Append(@, stage),
              !.current_stage = stage,
              !.progress_percent = stage_progress(stage)]

\* Job.skip_stage
skip_stage(j, stage) == [j EXCEPT !.skipped_stages = Append(@, stage)]

\* Job.mark_completed
mark_completed(j, result) ==
    [j EXCEPT !.status = "completed",
              !.current_stage = "completed",
              !.progress_percent = 100,
              !.completed_at = TRUE,
              !.result = IF result.empty THEN @ ELSE result]

\* Job.mark_failed
mark_failed(j, error) ==
    [j EXCEPT !.status = "failed",
              !.current_stage = "failed",
              !.completed_at = TRUE,
              !.errors = Append(@, error)]

\* a retry still allowed at retry_count = max_retries
can_retry_inclusive(j) == j.retry_count <= j.max_retries

\* Job.can_retry
can_retry(j) == j.retry_count < j.max_retries

(***************************************************************************)
(* Document model                                                          *)
(***************************************************************************)
DocumentStatuses == {"pending", "processing", "completed", "failed"}

\* Document(...) as the ingestion creates it
NewDocument(source, pid) ==
    [status |-> "pending", source |-> source, paperless_id |-> pid,
     ocr_text |-> "none", ocr_confidence |-> -1, metadata |-> {}]

\* Document.mark_completed
doc_mark_completed(d) == [d EXCEPT !.status = "completed"]

\* Document.mark_failed
doc_mark_failed(d) == [d EXCEPT !.status = "failed"]

(***************************************************************************)
(* Repositories                                                            *)
(***************************************************************************)
\* JobRepository.update: every column but max_retries is written from the object
job_repo_update(table, j) ==
    IF table = <<>> THEN table
    ELSE <<[j EXCEPT !.max_retries = table[1].max_retries]>>

\* JobRepository.update_status
job_repo_update_status(table, status, error_message) ==
    IF table = <<>> THEN table
    ELSE LET j0 == table[1]
             j1 == [j0 EXCEPT !.status = status]
             j2 == IF status = "processing" /\ ~j1.started_at
                   THEN [j1 EXCEPT !.started_at = TRUE]
                   ELSE IF status \in {"completed", "failed"}
                        THEN [j1 EXCEPT !.completed_at = TRUE]
                        ELSE j1
             j3 == IF error_message # "none"
                   THEN [j2 EXCEPT !.errors = Append(@, error_message)]
                   ELSE j2
         IN job_repo_update(table, j3)

\* DocumentRepository.update: the row takes the object's columns (source is not written)
doc_repo_update(table, d) ==
    IF table = <<>> THEN table
    ELSE <<[d EXCEPT !.source = table[1].source]>>

\* DocumentRepository.update_by_id(id, {"status": ...})
doc_repo_update_status(table, status) ==
    IF table = <<>> THEN table
    ELSE <<[table[1] EXCEPT !.status = status]>>

(***************************************************************************)
(* ProcessorContext                                                        *)
(***************************************************************************)
\* ProcessorContext(document=document, job=job, original_file_path=...)
NewContext ==
    [paperless_id |-> NoId, ocr_text |-> "none", ocr_confidence |-> -1,
     metadata |-> {}, errors |-> <<>>, warnings |-> <<>>, processed |-> FALSE]

\* ProcessorContext.add_error
add_error(c, error) == [c EXCEPT !.errors = Append(@, error)]

\* ProcessorContext.add_warning
add_warning(c, warning) == [c EXCEPT !.warnings = Append(@, warning)]

\* warnings counted as errors
has_errors_or_warnings(c) == Len(c.errors) > 0 \/ Len(c.warnings) > 0

\* ProcessorContext.has_errors
has_errors(c) == Len(c.errors) > 0

(***************************************************************************)
(* LLMExtractor (metadata_extraction stage)                                *)
(***************************************************************************)
\* the configured metadata fields (get_metadata_fields().fields), in order
MetadataFields == <<"document_type", "sender">>

LLMStates == {"up", "connect_error"}

\* LLMExtractor._call_ollama_chat: httpx.ConnectError is turned into LLMError
call_ollama_chat(l) == IF l = "connect_error" THEN "LLMError" ELSE "response"

\* LLMExtractor._call_ollama_chat_vl
call_ollama_chat_vl(l) == IF l = "connect_error" THEN "LLMError" ELSE "response"

\* LLMExtractor._call_ollama (free-text endpoint used per field)
call_ollama(l) == IF l = "connect_error" THEN "LLMError" ELSE "response"

\* LLMExtractor._extract_fields_individually: a field whose call raises is
\* logged and left out, the loop goes on; the method itself never raises
RECURSIVE extract_fields_individually(_, _, _, _)
extract_fields_individually(fields, i, l, resp) ==
    IF i > Len(fields) THEN {}
    ELSE (IF call_ollama(l) = "LLMError" \/ fields[i] \notin resp
          THEN {} ELSE {fields[i]})
         \cup extract_fields_individually(fields, i + 1, l, resp)

\* LLMExtractor._extract_all_fields_structured: any exception of the chat call
\* falls back to per-field extraction
extract_all_fields_structured(fields, l, resp) ==
    IF call_ollama_chat(l) = "LLMError"
    THEN [raised |-> FALSE, extracted |-> extract_fields_individually(fields, 1, l, resp)]
    ELSE [raised |-> FALSE,
          extracted |-> {fields[i] : i \in 1..Len(fields)} \cap resp]

\* LLMExtractor._extract_with_vision: the LLMError of the chat call propagates
extract_with_vision(fields, l, resp) ==
    IF call_ollama_chat_vl(l) = "LLMError"
    THEN [raised |-> TRUE, extracted |-> {}]
    ELSE [raised |-> FALSE,
          extracted |-> {fields[i] : i \in 1..Len(fields)} \cap resp]

\* a process in vision mode that leaves the OCR text of the Document alone
LLMExtractor_process_context_only(c, d, vision, l, resp, text) ==
    LET r == IF vision THEN extract_with_vision(MetadataFields, l, resp)
             ELSE extract_all_fields_structured(MetadataFields, l, resp)
        c1 == IF vision
              THEN [c EXCEPT !.ocr_text = text, !.ocr_confidence = VLConfidence]
              ELSE c
        extracted == r.extracted \cup {"urgency"}
    IN IF r.raised
       THEN [res |-> "fail", ctx |-> c, doc |-> d, dbwrite |-> FALSE, text |-> "none"]
       ELSE [res |-> "ok",
             ctx |-> [c1 EXCEPT !.metadata = extracted],
             doc |-> [d EXCEPT !.metadata = extracted],
             dbwrite |-> FALSE,
             text |-> IF vision THEN text ELSE "none"]

\* LLMExtractor.process: resp is the set of fields the model has a value for,
\* text the ocr_text a vision model returns (the text field of the result is
\* what _extract_with_vision returned as ocr_text)
LLMExtractor_process(c, d, vision, l, resp, text) ==
    LET r == IF vision THEN extract_with_vision(MetadataFields, l, resp)
             ELSE extract_all_fields_structured(MetadataFields, l, resp)
        c1 == IF vision
              THEN [c EXCEPT !.ocr_text = text, !.ocr_confidence = VLConfidence]
              ELSE c
        d1 == IF vision
              THEN [d EXCEPT !.ocr_text = text, !.ocr_confidence = VLConfidence]
              ELSE d
        extracted == r.extracted \cup {"urgency"}
    IN IF r.raised
       THEN [res |-> "fail", ctx |-> c, doc |-> d, dbwrite |-> FALSE, text |-> "none"]
       ELSE [res |-> "ok",
             ctx |-> [c1 EXCEPT !.metadata = extracted],
             doc |-> [d1 EXCEPT !.metadata = extracted],
             dbwrite |-> FALSE,
             text |-> IF vision THEN text ELSE "none"]

\* LLMExtractor.can_process
LLMExtractor_can_process(c, vision, image_exists) ==
    IF vision THEN image_exists ELSE c.ocr_text = "text"

(***************************************************************************)
(* The stages seen from the orchestrator                                   *)
(***************************************************************************)
OcrConfidences == {45, 80}
OcrTexts == {"empty", "text"}
CustomEffects == {"none", "error"}

BoolResult(b) == IF b THEN "true" ELSE "false"

\* ImageProcessor.can_process: whether the original file exists and is an image
ImageProcessor_can_process(c) ==
    {[res |-> r, ctx |-> c] : r \in {"true", "false"}}

\* OCRProcessor.can_process: false in vision mode, else whether a file to read exists
OCRProcessor_can_process(c, vision) ==
    IF vision THEN {[res |-> "false", ctx |-> c]}
    ELSE {[res |-> r, ctx |-> c] : r \in {"true", "false"}}

\* a can_process that looks at the source of the document only
PaperlessArchiver_can_process_by_source(c, d) ==
    IF d.source = "paperless_webhook"
    THEN {[res |-> "false", ctx |-> c]}
    ELSE {[res |-> r, ctx |-> c] : r \in {"true", "false"}}

\* PaperlessArchiver.can_process: a document that is in the archive already is
\* not uploaded and its id is written to the context; a webhook document is not
\* uploaded; else whether the archive is configured and a file exists
PaperlessArchiver_can_process(c, d) ==
    IF d.paperless_id # NoId
    THEN {[res |-> "false", ctx |-> [c EXCEPT !.paperless_id = d.paperless_id]]}
    ELSE IF d.source = "paperless_webhook"
         THEN {[res |-> "false", ctx |-> c]}
         ELSE {[res |-> r, ctx |-> c] : r \in {"true", "false"}}

\* Finalizer.can_process
Finalizer_can_process(c) == {[res |-> "true", ctx |-> c]}

\* can_process of a further subclass of BaseProcessor: any result, or an exception
Custom_can_process(c) ==
    {[res |-> r, ctx |-> c] : r \in {"true", "false", "raise"}}

\* processor.can_process(context) in the loop of process_document: the
\* possible results and the context after the call
CanProcess(cls, c, d, vision) ==
    CASE cls = "ImageProcessor" -> ImageProcessor_can_process(c)
      [] cls = "OCRProcessor" -> OCRProcessor_can_process(c, vision)
      [] cls = "PaperlessArchiver" -> PaperlessArchiver_can_process(c, d)
      [] cls = "LLMExtractor" ->
            {[res |-> BoolResult(LLMExtractor_can_process(c, vision, e)), ctx |-> c] :
                e \in BOOLEAN}
      [] cls = "Finalizer" -> Finalizer_can_process(c)
      [] OTHER -> Custom_can_process(c)

\* what a custom stage does to the context before it returns or raises
ApplyEffect(c, eff) ==
    IF eff = "error" THEN add_error(c, "custom_error") ELSE c

\* ImageProcessor.process: every exception is turned into a failure result
ImageProcessor_process(c, d) ==
    {[res |-> "ok", ctx |-> [c EXCEPT !.processed = TRUE], doc |-> d, dbwrite |-> FALSE],
     [res |-> "fail", ctx |-> c, doc |-> d, dbwrite |-> FALSE]}

\* a confidence under the threshold treated as a failure of the stage
OCRProcessor_process_failing_low(c, d) ==
    {[res |-> IF conf < ConfidenceThreshold THEN "fail" ELSE "ok",
      ctx |-> [(IF conf < ConfidenceThreshold
                THEN add_warning(c, "low_ocr_confidence") ELSE c)
               EXCEPT !.ocr_text = t, !.ocr_confidence = conf],
      doc |-> [d EXCEPT !.ocr_text = t, !.ocr_confidence = conf],
      dbwrite |-> FALSE] : conf \in OcrConfidences, t \in OcrTexts}
    \cup {[res |-> "fail", ctx |-> c, doc |-> d, dbwrite |-> FALSE]}

\* OCRProcessor.process: a confidence under the threshold adds a warning and
\* the result is still a success; every exception is turned into a failure result
OCRProcessor_process(c, d) ==
    {[res |-> "ok",
      ctx |-> [(IF conf < ConfidenceThreshold
                THEN add_warning(c, "low_ocr_confidence") ELSE c)
               EXCEPT !.ocr_text = t, !.ocr_confidence = conf],
      doc |-> [d EXCEPT !.ocr_text = t, !.ocr_confidence = conf],
      dbwrite |-> FALSE] : conf \in OcrConfidences, t \in OcrTexts}
    \cup {[res |-> "fail", ctx |-> c, doc |-> d, dbwrite |-> FALSE]}

\* PaperlessArchiver.process: the id the archive returns is written to the
\* context and the Document; every exception is turned into a failure result
PaperlessArchiver_process(c, d) ==
    {[res |-> "ok", ctx |-> [c EXCEPT !.paperless_id = ArchiveId],
      doc |-> [d EXCEPT !.paperless_id = ArchiveId], dbwrite |-> FALSE],
     [res |-> "fail", ctx |-> c, doc |-> d, dbwrite |-> FALSE]}

\* Finalizer.process: on success the row of the Document has been written;
\* every exception is turned into a failure result
Finalizer_process(c, d) ==
    {[res |-> "ok", ctx |-> c, doc |-> d, dbwrite |-> TRUE],
     [res |-> "fail", ctx |-> c, doc |-> d, dbwrite |-> FALSE]}

\* process of a further subclass of BaseProcessor: a success, a failure result
\* or an exception, after it may have added an error to the context
Custom_process(c, d) ==
    {[res |-> r, ctx |-> ApplyEffect(c, eff), doc |-> d, dbwrite |-> FALSE] :
        r \in {"ok", "fail", "raise"}, eff \in CustomEffects}

\* processor.process(context) in the loop of process_document: the possible
\* results with the context and the Document object after the call
Process(cls, c, d, vision, l) ==
    CASE cls = "ImageProcessor" -> ImageProcessor_process(c, d)
      [] cls = "OCRProcessor" -> OCRProcessor_process(c, d)
      [] cls = "PaperlessArchiver" -> PaperlessArchiver_process(c, d)
      [] cls = "LLMExtractor" ->
            {LLMExtractor_process(c, d, vision, l, resp, t) :
                resp \in SUBSET {MetadataFields[i] : i \in 1..Len(MetadataFields)},
                t \in OcrTexts}
      [] cls = "Finalizer" -> Finalizer_process(c, d)
      [] OTHER -> Custom_process(c, d)

\* processor.cleanup(context): BaseProcessor.cleanup does nothing, a subclass
\* may override it and raise
Cleanup(cls) == IF cls \in BuiltinClasses THEN {"ok"} ELSE {"ok", "raise"}

\* no call of UrgencyCalculator.calculate is under way
NoUrgencyCall ==
    [pc |-> "none", metadata |-> <<>>, rules |-> <<>>, i |-> 1, result |-> "none"]

\* no call of SenderMatcher.match_sender is under way
NoMatcherCall ==
    [pc |-> "none", extracted |-> "none", sender |-> "none", token |-> FALSE,
     archive |-> <<>>, page |-> 1, correspondents |-> <<>>, fetch_failed |-> FALSE,
     answer |-> "unasked", result |-> "none",
     correspondents_cache |-> "none", calls |-> 0, fetches |-> 0, requests |-> 0]

\* no call of Finalizer.process is under way
NoFinalizeCall ==
    [pc |-> "none", run |-> 0, metadata |-> <<>>, ocr_confidence |-> -1,
     tags |-> <<>>, correspondents |-> <<>>, document_types |-> <<>>,
     doc_tags |-> {}, update_data |-> {}, doc_fields |-> {}, creates |-> <<>>,
     request_failed |-> FALSE, first |-> <<>>]

\* process_all_pending is not called
NoPool ==
    [pc |-> "none", max_concurrent |-> 0, pending |-> 0, tasks |-> <<>>, value |-> 0,
     processed |-> 0, result |-> -1, documents |-> <<>>]

\* no webhook delivery is being handled and the tables are empty
NoWebhookCall == [tasks |-> <<>>, documents |-> <<>>, jobs |-> <<>>]

\* no tag call is under way
NoTagCall == [tasks |-> <<>>, doc_tags |-> {}]

\* no worker is inside process_job
NoWorkerCall ==
    [pc |-> "none", job_id |-> 0, job |-> NoJobObject, outcome |-> "none", calls |-> 0]

\* the language model is not called
NoLLMCall ==
    [pc |-> "none", vision |-> FALSE, max_retries |-> 0, fields |-> <<>>,
     kind |-> "none", field |-> 0, attempt |-> 0, requests |-> 0, calls |-> <<>>,
     steps |-> <<>>, parsed_by |-> "none", response |-> <<>>, extracted |-> {},
     confidence |-> {}, metadata |-> {}, overall |-> <<>>, ocr_confidence |-> <<>>,
     stage |-> "none"]

\* ProcessorRegistry(): no processor is registered, no call was made
NoRegistryCall == [processors |-> <<>>, calls |-> <<>>, ordered |-> <<>>]

\* the helpers are not called
HelpersIdle ==
    /\ urgency_call = NoUrgencyCall
    /\ matcher_call = NoMatcherCall
    /\ finalize_call = NoFinalizeCall
    /\ pool = NoPool
    /\ worker_call = NoWorkerCall
    /\ llm_call = NoLLMCall
    /\ registry_call = NoRegistryCall
    /\ webhook_call = NoWebhookCall
    /\ tag_call = NoTagCall

\* a single task runs on the event loop: nothing is suspended
NoOtherTask == [active |-> "main", parked |-> <<>>, polls |-> 0]

(***************************************************************************)
(* Initial state: empty registry, one ingested Document, no Job            *)
(***************************************************************************)
Init ==
    /\ processors = <<>>
    /\ settings \in [vision : BOOLEAN]
    /\ llm \in LLMStates
    /\ faults = FALSE
    /\ jobs_table = <<>>
    /\ docs_table \in {<<NewDocument("upload", NoId)>>,
                       <<NewDocument("paperless_webhook", ArchiveId)>>}
    /\ job = NoJobObject
    /\ document = docs_table[1]
    /\ context = NewContext
    /\ ordered = <<>>
    /\ idx = 1
    /\ pc = "setup"
    /\ caller = "none"
    /\ events = <<>>
    /\ rollbacks = <<>>
    /\ archive_tags = IF docs_table[1].paperless_id # NoId THEN {"processing"} ELSE {}
    /\ cleanup_result = "none"
    /\ now = 0
    /\ sched = NoOtherTask
    /\ HelpersIdle

(***************************************************************************)
(* Registry and job creation                                               *)
(***************************************************************************)
\* ProcessorRegistry.register(processor_class), at startup
Register(cls) ==
    /\ pc = "setup"
    /\ processors' = RegistryRegister(processors, cls)
    /\ UNCHANGED other_vars
    /\ UNCHANGED <<settings, llm, faults, jobs_table, docs_table, job, document, context,
                   ordered, idx, pc, caller, events, rollbacks, archive_tags,
                   cleanup_result>>

\* PipelineOrchestrator.create_job / JobRepository.create
CreateJob ==
    /\ pc = "setup"
    /\ jobs_table = <<>>
    /\ jobs_table' = <<NewJob(DefaultMaxRetries)>>
    /\ pc' = "idle"
    /\ UNCHANGED other_vars
    /\ UNCHANGED <<processors, settings, llm, faults, docs_table, job, document, context,
                   ordered, idx, caller, events, rollbacks, archive_tags, cleanup_result>>

(***************************************************************************)
(* PipelineOrchestrator.process_document                                   *)
(***************************************************************************)
\* process_document up to the for loop: the context is built, the processors
\* are fetched; with none registered the job is failed and returned
EnterPipeline(d, j, who, table) ==
    LET procs == get_ordered_processors(processors)
        c == IF d.paperless_id # NoId
             THEN [NewContext EXCEPT !.paperless_id = d.paperless_id]
             ELSE NewContext
    IN /\ context' = c
       /\ document' = d
       /\ ordered' = procs
       /\ idx' = 1
       /\ caller' = who
       /\ events' = <<>>
       /\ rollbacks' = <<>>
       /\ cleanup_result' = "none"
       /\ IF procs = <<>>
          THEN /\ job' = mark_failed(j, "No processors registered")
               /\ jobs_table' = job_repo_update(table, job')
               /\ pc' = "returned"
          ELSE /\ job' = j
               /\ jobs_table' = table
               /\ pc' = "loop"

\* _update_paperless_tags_on_failure(paperless_id, error): without an id it
\* returns at once; a failing archive call is swallowed
TagsOnFailure(tags, pid, reachable) ==
    IF pid = NoId \/ ~reachable THEN tags
    ELSE (tags \ {"processing"}) \cup {"error"}

\* context.paperless_id or document.paperless_id
BestKnownId(c, d) == IF c.paperless_id # NoId THEN c.paperless_id ELSE d.paperless_id

\* the stage is failed but the job is not
FailJob_stage_only(j, error) == fail_stage(j, error)

\* job.fail_stage(error) followed by job.mark_failed(error)
FailJob(j, error) == mark_failed(fail_stage(j, error), error)

\* cleanup only after a successful process
CleanupRuns_on_success(res) == res = "ok"

\* the finally block: processor.cleanup runs whatever the outcome of process
CleanupRuns(res) == TRUE

\* the try / except around processor.cleanup: its exception is logged, not raised
CleanupEscalates(cl) == FALSE

\* which call of a step raises: 0 for none, k for the k-th repository call,
\* in the try block 3 for the on_stage_complete callback
FaultChoices(n) == IF faults THEN 0..n ELSE {0}

\* the loop head for one processor: can_process, then skip_stage or start_stage
\* and job_repo.update; an exception of can_process or of the update is outside
\* every try block
VisitStage ==
    /\ pc = "loop"
    /\ idx <= Len(ordered)
    /\ LET cls == ordered[idx]
           stage == StageOf(cls)
       IN \E r \in CanProcess(cls, context, document, settings.vision),
             f \in FaultChoices(1) :
            /\ events' = Append(events, [op |-> "can_process", stage |-> stage, res |-> r.res])
            /\ context' = r.ctx
            /\ job' = CASE r.res = "false" -> skip_stage(job, stage)
                        [] r.res = "true" -> start_stage(job, stage, now)
                        [] OTHER -> job
            /\ jobs_table' = IF r.res = "raise" \/ f = 1 THEN jobs_table
                             ELSE job_repo_update(jobs_table, job')
            /\ idx' = IF r.res = "false" /\ f = 0 THEN idx + 1 ELSE idx
            /\ pc' = IF r.res = "raise" \/ f = 1 THEN "raised"
                     ELSE IF r.res = "true" THEN "stage" ELSE "loop"
    /\ cleanup_result' = "none"
    /\ UNCHANGED other_vars
    /\ UNCHANGED <<processors, settings, llm, faults, docs_table, document, ordered,
                   caller, rollbacks, archive_tags>>

\* the except Exception block of the loop body: fh is the repository call of
\* the block that raises
ExceptBlock(j, table, d, dtable, c, tags, reachable, fh) ==
    LET j1 == FailJob(j, "stage_exception")
        d1 == [d EXCEPT !.status = "failed"]
    IN CASE fh = 1 ->
              [job |-> j1, jobs_table |-> table, document |-> d, docs_table |-> dtable,
               rollbacks |-> <<>>, archive_tags |-> tags, pc |-> "raised"]
         [] fh = 2 ->
              [job |-> j1, jobs_table |-> job_repo_update(table, j1), document |-> d1,
               docs_table |-> dtable, rollbacks |-> <<>>, archive_tags |-> tags,
               pc |-> "raised"]
         [] OTHER ->
              [job |-> j1, jobs_table |-> job_repo_update(table, j1), document |-> d1,
               docs_table |-> doc_repo_update(dtable, d1),
               rollbacks |-> <<BestKnownId(c, d)>>,
               archive_tags |-> TagsOnFailure(tags, BestKnownId(c, d), reachable),
               pc |-> "returned"]

\* the try block of the loop body after processor.process gave r: f is the
\* repository call of the step that raises, 3 when the call that raises is the
\* callback given to on_stage_complete
TryBlock(j, table, dtable, r, tags, reachable, f) ==
    CASE r.res = "ok" ->
           LET j1 == complete_stage(j)
           IN IF f = 1
              THEN ExceptBlock(j1, table, r.doc, dtable, r.ctx, tags, reachable, 0)
              ELSE IF f = 3
                   THEN ExceptBlock(j1, job_repo_update(table, j1), r.doc, dtable,
                                    r.ctx, tags, reachable, 0)
                   ELSE [job |-> j1, jobs_table |-> job_repo_update(table, j1),
                         document |-> r.doc, docs_table |-> dtable, rollbacks |-> <<>>,
                         archive_tags |-> tags, pc |-> "loop"]
      [] r.res = "fail" ->
           LET j1 == FailJob(j, "stage_failure")
               d1 == [r.doc EXCEPT !.status = "failed"]
               tags1 == TagsOnFailure(tags, BestKnownId(r.ctx, r.doc), reachable)
           IN IF f = 1
              THEN ExceptBlock(j1, table, r.doc, dtable, r.ctx, tags, reachable, 0)
              ELSE IF f = 2
                   THEN ExceptBlock(j1, job_repo_update(table, j1), d1, dtable, r.ctx,
                                    tags, reachable, 0)
                   ELSE IF f = 3
                        THEN LET out == ExceptBlock(j1, job_repo_update(table, j1), d1,
                                                    doc_repo_update(dtable, d1), r.ctx,
                                                    tags1, reachable, 0)
                             IN [out EXCEPT
                                   !.rollbacks = <<BestKnownId(r.ctx, r.doc)>> \o @]
                        ELSE [job |-> j1, jobs_table |-> job_repo_update(table, j1),
                              document |-> d1, docs_table |-> doc_repo_update(dtable, d1),
                              rollbacks |-> <<BestKnownId(r.ctx, r.doc)>>,
                              archive_tags |-> tags1,
                              pc |-> "returned"]
      [] OTHER ->
           ExceptBlock(j, table, r.doc, dtable, r.ctx, tags, reachable, f)

\* Finalizer._update_document_status: the row is written directly
FinalizerWrite(dtable, c) ==
    IF dtable = <<>> THEN dtable
    ELSE <<[dtable[1] EXCEPT !.status = "completed",
                             !.ocr_confidence = c.ocr_confidence,
                             !.paperless_id = c.paperless_id]>>

\* the try / except / finally block around processor.process for one processor
RunStage ==
    /\ pc = "stage"
    /\ LET cls == ordered[idx]
           stage == StageOf(cls)
       IN \E r \in Process(cls, context, document, settings.vision, llm),
             cl \in Cleanup(cls), reachable \in BOOLEAN, f \in FaultChoices(3) :
            LET dtable == IF r.dbwrite THEN FinalizerWrite(docs_table, r.ctx)
                          ELSE docs_table
                out == TryBlock(job, jobs_table, dtable, r, archive_tags, reachable, f)
            IN /\ (f = 2 => r.res # "ok")
               /\ (f = 3 => r.res \in {"ok", "fail"})
               /\ events' = events \o
                     <<[op |-> "process", stage |-> stage, res |-> r.res,
                        text |-> IF "text" \in DOMAIN r THEN r.text ELSE "none"]>> \o
                     (IF CleanupRuns(r.res)
                      THEN <<[op |-> "cleanup", stage |-> stage, res |-> "done"]>>
                      ELSE <<>>)
               /\ cleanup_result' = IF CleanupRuns(r.res) THEN cl ELSE "none"
               /\ context' = r.ctx
               /\ job' = out.job
               /\ jobs_table' = out.jobs_table
               /\ document' = out.document
               /\ docs_table' = out.docs_table
               /\ rollbacks' = rollbacks \o out.rollbacks
               /\ archive_tags' = out.archive_tags
               /\ idx' = IF out.pc = "loop" THEN idx + 1 ELSE idx
               /\ pc' = IF CleanupRuns(r.res) /\ CleanupEscalates(cl) THEN "raised"
                        ELSE out.pc
    /\ UNCHANGED other_vars
    /\ UNCHANGED <<processors, settings, llm, faults, ordered, caller>>

\* after the loop: mark_completed with the result snapshot, the context is
\* copied onto the Document, whose status follows context.has_errors()
CompletePipeline ==
    /\ pc = "loop"
    /\ idx > Len(ordered)
    /\ \E f \in FaultChoices(2) :
        LET j1 == mark_completed(job, [empty |-> FALSE,
                                       paperless_id |-> context.paperless_id,
                                       ocr_confidence |-> context.ocr_confidence,
                                       metadata |-> context.metadata])
            d1 == [document EXCEPT !.paperless_id = context.paperless_id,
                                   !.ocr_text = context.ocr_text,
                                   !.ocr_confidence = context.ocr_confidence,
                                   !.metadata = context.metadata]
            d2 == IF has_errors(context) THEN doc_mark_failed(d1)
                  ELSE doc_mark_completed(d1)
        IN /\ job' = j1
           /\ jobs_table' = IF f = 1 THEN jobs_table ELSE job_repo_update(jobs_table, j1)
           /\ document' = IF f = 1 THEN document ELSE d2
           /\ docs_table' = IF f = 0 THEN doc_repo_update(docs_table, d2) ELSE docs_table
           /\ pc' = IF f = 0 THEN "returned" ELSE "raised"
    /\ UNCHANGED other_vars
    /\ UNCHANGED <<processors, settings, llm, faults, context, ordered, idx, caller,
                   events, rollbacks, archive_tags, cleanup_result>>

(***************************************************************************)
(* Callers of process_document                                             *)
(***************************************************************************)
\* job.status in (JobStatus.COMPLETED, JobStatus.CANCELLED, JobStatus.FAILED),
\* without the CANCELLED member
in_terminal_state_without_cancelled(status) == status \in {"completed", "failed"}

\* job.status in (JobStatus.COMPLETED, JobStatus.CANCELLED, JobStatus.FAILED)
in_terminal_state(status) == status \in {"completed", "cancelled", "failed"}

\* JobWorker.process_job up to the call of process_document
process_job ==
    /\ pc = "idle"
    /\ jobs_table # <<>>
    /\ LET j == jobs_table[1]
       IN IF in_terminal_state(j.status)
          THEN UNCHANGED <<jobs_table, job, document, context, ordered, idx, pc, caller,
                           events, rollbacks, cleanup_result>>
          ELSE IF docs_table = <<>>
               THEN /\ jobs_table' =
                         job_repo_update_status(jobs_table, "failed", "Document not found")
                    /\ UNCHANGED <<job, document, context, ordered, idx, pc, caller,
                                   events, rollbacks, cleanup_result>>
               ELSE EnterPipeline(docs_table[1], j, "worker", jobs_table)
    /\ UNCHANGED <<processors, settings, llm, faults, docs_table, archive_tags>>

\* a process_job call when no other task shares the event loop
ProcessJob ==
    /\ process_job
    /\ UNCHANGED other_vars

\* Job fields retry_job resets (skipped_stages and started_at are left alone)
ResetForRetry(j) ==
    [j EXCEPT !.retry_count = @ + 1,
              !.status = "queued",
              !.current_stage = "pending",
              !.progress_percent = 0,
              !.stages = <<>>,
              !.completed_at = FALSE,
              !.errors = <<>>,
              !.result = EmptyResult]

\* PipelineOrchestrator.retry_job up to the call of process_document: the job
\* is returned as it is when it cannot be retried or its document is gone
RetryJob ==
    /\ pc = "idle"
    /\ jobs_table # <<>>
    /\ LET j == jobs_table[1]
       IN IF ~can_retry(j) \/ docs_table = <<>>
          THEN UNCHANGED <<jobs_table, job, document, pc, caller>>
          ELSE /\ job' = ResetForRetry(j)
               /\ jobs_table' = job_repo_update(jobs_table, job')
               /\ document' = docs_table[1]
               /\ caller' = "retry"
               /\ pc' = "retrying"
    /\ UNCHANGED other_vars
    /\ UNCHANGED <<processors, settings, llm, faults, docs_table, context, ordered, idx,
                   events, rollbacks, archive_tags, cleanup_result>>

\* retry_job: return await self.process_document(document, job)
RetryStart ==
    /\ pc = "retrying"
    /\ EnterPipeline(document, job, "retry", jobs_table)
    /\ UNCHANGED other_vars
    /\ UNCHANGED <<processors, settings, llm, faults, docs_table, archive_tags>>

\* PipelineOrchestrator.process_async: create_job, then the task is scheduled
ProcessAsync ==
    /\ pc = "setup"
    /\ jobs_table = <<>>
    /\ jobs_table' = <<NewJob(DefaultMaxRetries)>>
    /\ job' = NewJob(DefaultMaxRetries)
    /\ pc' = "spawned"
    /\ UNCHANGED other_vars
    /\ UNCHANGED <<processors, settings, llm, faults, docs_table, document, context,
                   ordered, idx, caller, events, rollbacks, archive_tags, cleanup_result>>

\* PipelineOrchestrator._process_background up to the call of process_document
BackgroundStart ==
    /\ pc = "spawned"
    /\ EnterPipeline(document, job, "background", jobs_table)
    /\ UNCHANGED other_vars
    /\ UNCHANGED <<processors, settings, llm, faults, docs_table, archive_tags>>

\* process_document returned its job to the caller; the objects of the run
\* are dropped
Return ==
    /\ pc = "returned"
    /\ pc' = "idle"
    /\ job' = NoJobObject
    /\ document' = docs_table[1]
    /\ context' = NewContext
    /\ ordered' = <<>>
    /\ idx' = 1
    /\ events' = <<>>
    /\ rollbacks' = <<>>
    /\ cleanup_result' = "none"
    /\ UNCHANGED other_vars
    /\ UNCHANGED <<processors, settings, llm, faults, jobs_table, docs_table, caller,
                   archive_tags>>

\* an exception left process_document: the except block of the caller
\* (JobWorker.process_job, _process_background; retry_job has none)
Propagate ==
    /\ pc = "raised"
    /\ pc' = "idle"
    /\ CASE caller = "worker" ->
              /\ jobs_table' = job_repo_update_status(jobs_table, "failed", "exception")
              /\ docs_table' = doc_repo_update_status(docs_table, "failed")
         [] caller = "background" ->
              /\ jobs_table' = job_repo_update(jobs_table, mark_failed(job, "exception"))
              /\ docs_table' = docs_table
         [] OTHER ->
              /\ UNCHANGED <<jobs_table, docs_table>>
    /\ job' = NoJobObject
    /\ document' = docs_table'[1]
    /\ context' = NewContext
    /\ ordered' = <<>>
    /\ idx' = 1
    /\ events' = <<>>
    /\ rollbacks' = <<>>
    /\ cleanup_result' = "none"
    /\ UNCHANGED other_vars
    /\ UNCHANGED <<processors, settings, llm, faults, caller, archive_tags>>

(***************************************************************************)
(* Specification of one pipeline run over any registry                     *)
(***************************************************************************)
Next ==
    \/ \E cls \in ProcessorClasses : Register(cls)
    \/ CreateJob
    \/ ProcessAsync
    \/ BackgroundStart
    \/ ProcessJob
    \/ VisitStage
    \/ RunStage
    \/ CompletePipeline
    \/ Return
    \/ Propagate

Spec == Init /\ [][Next]_vars

(***************************************************************************)
(* Specification of the retries of a persisted Job: the worker has         *)
(* registered the default processors (register_all_processors)             *)
(***************************************************************************)
DefaultRegistry ==
    [s \in Stages |->
        CASE s = "image_processing" -> "ImageProcessor"
          [] s = "ocr" -> "OCRProcessor"
          [] s = "paperless_upload" -> "PaperlessArchiver"
          [] s = "metadata_extraction" -> "LLMExtractor"
          [] s = "finalization" -> "Finalizer"]

InitRetry ==
    /\ processors = DefaultRegistry
    /\ settings \in [vision : BOOLEAN]
    /\ llm \in LLMStates
    /\ faults = FALSE
    /\ \E maxr \in 0..MaxRetriesCap : jobs_table = <<NewJob(maxr)>>
    /\ docs_table \in {<<NewDocument("upload", NoId)>>,
                       <<NewDocument("paperless_webhook", ArchiveId)>>}
    /\ job = NoJobObject
    /\ document = docs_table[1]
    /\ context = NewContext
    /\ ordered = <<>>
    /\ idx = 1
    /\ pc = "idle"
    /\ caller = "none"
    /\ events = <<>>
    /\ rollbacks = <<>>
    /\ archive_tags = IF docs_table[1].paperless_id # NoId THEN {"processing"} ELSE {}
    /\ cleanup_result = "none"
    /\ now = 0
    /\ sched = NoOtherTask
    /\ HelpersIdle

NextRetry ==
    \/ ProcessJob
    \/ RetryJob
    \/ RetryStart
    \/ VisitStage
    \/ RunStage
    \/ CompletePipeline
    \/ Return

SpecRetry == InitRetry /\ [][NextRetry]_vars

(***************************************************************************)
(* Specification of a worker run in which a repository call may raise      *)
(***************************************************************************)
InitFaults ==
    /\ processors = DefaultRegistry
    /\ settings \in [vision : BOOLEAN]
    /\ llm \in LLMStates
    /\ faults = TRUE
    /\ jobs_table = <<NewJob(DefaultMaxRetries)>>
    /\ docs_table \in {<<NewDocument("upload", NoId)>>,
                       <<NewDocument("paperless_webhook", ArchiveId)>>}
    /\ job = NoJobObject
    /\ document = docs_table[1]
    /\ context = NewContext
    /\ ordered = <<>>
    /\ idx = 1
    /\ pc = "idle"
    /\ caller = "none"
    /\ events = <<>>
    /\ rollbacks = <<>>
    /\ archive_tags = IF docs_table[1].paperless_id # NoId THEN {"processing"} ELSE {}
    /\ cleanup_result = "none"
    /\ now = 0
    /\ sched = NoOtherTask
    /\ HelpersIdle

NextFaults ==
    \/ ProcessJob
    \/ VisitStage
    \/ RunStage
    \/ CompletePipeline
    \/ Return
    \/ Propagate

SpecFaults == InitFaults /\ [][NextFaults]_vars

(***************************************************************************)
(* Specification of a worker that is stopped in the middle of a run and    *)
(* started again: the Job row stays PROCESSING and get_pending_jobs        *)
(* returns it to the new worker loop                                       *)
(***************************************************************************)
\* bound: the runs of a Job that are interrupted
MaxInterrupts == 1

\* the entries of the stage history that have no completion time
OpenEntries(j) == {i \in 1..Len(j.stages) : j.stages[i].completed_at = FALSE}

\* the process ends while a processor runs, after start_stage was persisted:
\* its objects are lost, the rows stay as the last persist left them
Interrupt ==
    /\ pc = "stage"
    /\ jobs_table # <<>>
    /\ jobs_table[1].status = "processing"
    /\ Cardinality(OpenEntries(jobs_table[1])) <= MaxInterrupts
    /\ pc' = "idle"
    /\ job' = NoJobObject
    /\ document' = docs_table[1]
    /\ context' = NewContext
    /\ ordered' = <<>>
    /\ idx' = 1
    /\ events' = <<>>
    /\ rollbacks' = <<>>
    /\ cleanup_result' = "none"
    /\ UNCHANGED other_vars
    /\ UNCHANGED <<processors, settings, llm, faults, jobs_table, docs_table, caller,
                   archive_tags>>

NextRestart ==
    \/ ProcessJob
    \/ VisitStage
    \/ RunStage
    \/ CompletePipeline
    \/ Return
    \/ Interrupt

SpecRestart == InitRetry /\ [][NextRestart]_vars

(***************************************************************************)
(* The clock                                                               *)
(***************************************************************************)
\* time passes; the system clock is taken never to be set back
Tick ==
    /\ now < MaxClock
    /\ now' = now + 1
    /\ UNCHANGED <<processors, settings, llm, faults, jobs_table, docs_table, job,
                   document, context, ordered, idx, pc, caller, events, rollbacks,
                   archive_tags, cleanup_result, sched>>
    /\ UNCHANGED helper_vars

(***************************************************************************)
(* Specification of two tasks that run process_job on the same Job: the    *)
(* task DocumentService._queue_job creates and JobWorker.run_worker_loop   *)
(***************************************************************************)
\* the objects a task holds across its await points
Locals ==
    [job |-> job, document |-> document, context |-> context, ordered |-> ordered,
     idx |-> idx, pc |-> pc, caller |-> caller, events |-> events,
     rollbacks |-> rollbacks, cleanup_result |-> cleanup_result]

\* a task that has not called process_job
IdleLocals(d) ==
    [job |-> NoJobObject, document |-> d, context |-> NewContext, ordered |-> <<>>,
     idx |-> 1, pc |-> "idle", caller |-> "none", events |-> <<>>,
     rollbacks |-> <<>>, cleanup_result |-> "none"]

\* a registry of two stages
TwoStageRegistry ==
    RegistryRegister(RegistryRegister(<<>>, "ImageProcessor"), "Finalizer")

InitConcurrent ==
    /\ processors = TwoStageRegistry
    /\ settings = [vision |-> FALSE]
    /\ llm = "up"
    /\ faults = FALSE
    /\ jobs_table = <<NewJob(DefaultMaxRetries)>>
    /\ docs_table = <<NewDocument("upload", NoId)>>
    /\ job = NoJobObject
    /\ document = docs_table[1]
    /\ context = NewContext
    /\ ordered = <<>>
    /\ idx = 1
    /\ pc = "idle"
    /\ caller = "none"
    /\ events = <<>>
    /\ rollbacks = <<>>
    /\ archive_tags = {}
    /\ cleanup_result = "none"
    /\ now = 0
    /\ sched = [active |-> "queued_task", parked |-> <<IdleLocals(docs_table[1])>>,
                polls |-> 0]
    /\ HelpersIdle

\* DocumentService._queue_job: the task created for the new Job runs process_job, once
QueuedTaskRuns ==
    /\ sched.active = "queued_task"
    /\ caller = "none"
    /\ process_job
    /\ UNCHANGED other_vars

\* JobWorker.run_worker_loop: get_pending_jobs(limit=1) returns the Job while it
\* is QUEUED or PROCESSING, and process_job is awaited on it
WorkerLoopPolls ==
    /\ sched.active = "worker_loop"
    /\ sched.polls < MaxPolls
    /\ jobs_table[1].status \in {"queued", "processing"}
    /\ process_job
    /\ sched' = [sched EXCEPT !.polls = @ + 1]
    /\ now' = now
    /\ UNCHANGED helper_vars

\* the running task reaches an await and the event loop resumes the other task
Switch ==
    /\ sched.parked # <<>>
    /\ sched' = [sched EXCEPT
                    !.active = IF @ = "queued_task" THEN "worker_loop" ELSE "queued_task",
                    !.parked = <<Locals>>]
    /\ job' = sched.parked[1].job
    /\ document' = sched.parked[1].document
    /\ context' = sched.parked[1].context
    /\ ordered' = sched.parked[1].ordered
    /\ idx' = sched.parked[1].idx
    /\ pc' = sched.parked[1].pc
    /\ caller' = sched.parked[1].caller
    /\ events' = sched.parked[1].events
    /\ rollbacks' = sched.parked[1].rollbacks
    /\ cleanup_result' = sched.parked[1].cleanup_result
    /\ UNCHANGED <<processors, settings, llm, faults, jobs_table, docs_table,
                   archive_tags, now>>
    /\ UNCHANGED helper_vars

NextConcurrent ==
    \/ Tick
    \/ QueuedTaskRuns
    \/ WorkerLoopPolls
    \/ Switch
    \/ VisitStage
    \/ RunStage
    \/ CompletePipeline
    \/ Return

SpecConcurrent == InitConcurrent /\ [][NextConcurrent]_vars

(***************************************************************************)
(* Specification of JobWorker.process_job beside the requests that cancel  *)
(* a Job and delete a Document: the worker is suspended at its awaits      *)
(***************************************************************************)
\* the ids process_job is called with: 1 is the id of the Job created for the
\* Document, 2 is an id no row has
JobIds == {1, 2}

\* a get_by_id that finds the Job of the Document under every id
JobRowsAnyId(table, id) == table

\* JobRepository.get_by_id: the rows with that id
JobRows(table, id) == IF id = 1 THEN table ELSE <<>>

InitWorker ==
    /\ processors = TwoStageRegistry
    /\ settings = [vision |-> FALSE]
    /\ llm = "up"
    /\ faults = FALSE
    /\ jobs_table = <<NewJob(DefaultMaxRetries)>>
    /\ docs_table \in {<<NewDocument("upload", NoId)>>,
                       <<NewDocument("paperless_webhook", ArchiveId)>>}
    /\ job = NoJobObject
    /\ document = docs_table[1]
    /\ context = NewContext
    /\ ordered = <<>>
    /\ idx = 1
    /\ pc = "idle"
    /\ caller = "none"
    /\ events = <<>>
    /\ rollbacks = <<>>
    /\ archive_tags = IF docs_table[1].paperless_id # NoId THEN {"processing"} ELSE {}
    /\ cleanup_result = "none"
    /\ now = 0
    /\ sched = NoOtherTask
    /\ HelpersIdle

\* process_job(job_id) up to the await of doc_repo.get_by_id: the Job is read,
\* a missing Job and a Job in a terminal state end the call
WorkerGetJob(id) ==
    /\ pc = "idle"
    /\ worker_call.pc \in {"none", "done"}
    /\ worker_call.calls < MaxCalls
    /\ LET rows == JobRows(jobs_table, id)
       IN worker_call' =
            IF rows = <<>>
            THEN [pc |-> "done", job_id |-> id, job |-> NoJobObject,
                  outcome |-> "job_not_found", calls |-> worker_call.calls + 1]
            ELSE IF in_terminal_state(rows[1].status)
                 THEN [pc |-> "done", job_id |-> id, job |-> rows[1],
                       outcome |-> "terminal", calls |-> worker_call.calls + 1]
                 ELSE [pc |-> "get_document", job_id |-> id, job |-> rows[1],
                       outcome |-> "none", calls |-> worker_call.calls + 1]
    /\ UNCHANGED <<pipeline_vars, now, sched, urgency_call, matcher_call, finalize_call,
                   pool, llm_call,
                   registry_call, webhook_call, tag_call>>

\* process_job from doc_repo.get_by_id on: without the Document the Job is
\* marked through update_status, with it process_document is called
WorkerGetDocument ==
    /\ pc = "idle"
    /\ worker_call.pc = "get_document"
    /\ IF docs_table = <<>>
       THEN /\ jobs_table' = job_repo_update_status(JobRows(jobs_table, worker_call.job_id),
                                                    "failed", "Document not found")
            /\ worker_call' = [worker_call EXCEPT !.pc = "done",
                                                  !.outcome = "document_not_found"]
            /\ UNCHANGED <<job, document, context, ordered, idx, pc, caller, events,
                           rollbacks, cleanup_result>>
       ELSE /\ EnterPipeline(docs_table[1], worker_call.job, "worker", jobs_table)
            /\ worker_call' = [worker_call EXCEPT !.pc = "done", !.outcome = "invoked"]
    /\ UNCHANGED <<processors, settings, llm, faults, docs_table, archive_tags>>
    /\ UNCHANGED <<now, sched, urgency_call, matcher_call, finalize_call, pool, llm_call,
                   registry_call, webhook_call, tag_call>>

\* POST /jobs/{job_id}/cancel on the Job of the Document, for a request that
\* got past the ownership check: a QUEUED or PROCESSING Job is cancelled, any
\* other request is answered with an error
CancelJob ==
    /\ pc # "setup"
    /\ jobs_table # <<>>
    /\ docs_table # <<>>
    /\ jobs_table[1].status \in {"queued", "processing"}
    /\ jobs_table' = job_repo_update_status(jobs_table, "cancelled", "none")
    /\ UNCHANGED <<processors, settings, llm, faults, docs_table, job, document, context,
                   ordered, idx, pc, caller, events, rollbacks, archive_tags,
                   cleanup_result>>
    /\ UNCHANGED other_vars

\* DocumentService.delete_document: the jobs of the Document and its row are
\* deleted (between two pipeline runs)
DeleteDocument ==
    /\ pc = "idle"
    /\ docs_table # <<>>
    /\ jobs_table' = <<>>
    /\ docs_table' = <<>>
    /\ UNCHANGED <<processors, settings, llm, faults, job, document, context,
                   ordered, idx, pc, caller, events, rollbacks, archive_tags,
                   cleanup_result>>
    /\ UNCHANGED other_vars

NextWorker ==
    \/ \E id \in JobIds : WorkerGetJob(id)
    \/ WorkerGetDocument
    \/ CancelJob
    \/ DeleteDocument
    \/ VisitStage
    \/ RunStage
    \/ CompletePipeline
    \/ Return

SpecWorker == InitWorker /\ [][NextWorker]_vars

\* no pipeline runs: the state of the pipeline while a helper is called on its own
PipelineIdle ==
    /\ processors = <<>>
    /\ settings = [vision |-> FALSE]
    /\ llm = "up"
    /\ faults = FALSE
    /\ jobs_table = <<>>
    /\ docs_table = <<NewDocument("upload", NoId)>>
    /\ job = NoJobObject
    /\ document = docs_table[1]
    /\ context = NewContext
    /\ ordered = <<>>
    /\ idx = 1
    /\ pc = "idle"
    /\ caller = "none"
    /\ events = <<>>
    /\ rollbacks = <<>>
    /\ archive_tags = {}
    /\ cleanup_result = "none"
    /\ now = 0
    /\ sched = NoOtherTask

(***************************************************************************)
(* UrgencyCalculator and DateParser (llm_extractor.py)                     *)
(***************************************************************************)
\* bound: the longest list of rules in urgency_rules.yaml
MaxRules == 2

\* DateParser.DATE_FORMATS, in order: %Y-%m-%d, %d.%m.%Y, %d/%m/%Y, %m/%d/%Y
DATE_FORMATS == <<"iso", "german", "european", "us">>

\* UrgencyCalculator.DEFAULT_URGENCY
DEFAULT_URGENCY == "low"

\* a date, counted in days from date.today(); <<>> stands for None
Day(n) == <<n>>

\* strptime(str(value), fmt) for each format: the date read, <<>> for ValueError
Reads(iso, german, european, us) ==
    [f \in {"iso", "german", "european", "us"} |->
        CASE f = "iso" -> iso [] f = "german" -> german
          [] f = "european" -> european [] OTHER -> us]

\* the values of the due_date key: None, a text that is no date, a date in one
\* of the formats, and a text that reads as a date both as %d/%m/%Y and %m/%d/%Y
DueDateValues ==
    {[is_none |-> TRUE, reads |-> Reads(<<>>, <<>>, <<>>, <<>>)],
     [is_none |-> FALSE, reads |-> Reads(<<>>, <<>>, <<>>, <<>>)],
     [is_none |-> FALSE, reads |-> Reads(Day(1), <<>>, <<>>, <<>>)],
     [is_none |-> FALSE, reads |-> Reads(<<>>, Day(3), <<>>, <<>>)],
     [is_none |-> FALSE, reads |-> Reads(<<>>, <<>>, <<>>, Day(4))],
     [is_none |-> FALSE, reads |-> Reads(<<>>, <<>>, Day(2), Day(30))],
     [is_none |-> FALSE, reads |-> Reads(<<>>, <<>>, Day(30), Day(2))],
     [is_none |-> FALSE, reads |-> Reads(Day(-2), <<>>, <<>>, <<>>)]}

\* the metadata maps calculate is called with; "none" stands for None or a
\* missing key, _ocr_text is the list of the words of the text
MetadataMaps ==
    [due_date : DueDateValues,
     document_type : {"none", "invoice"},
     sender : {"none", "ACME"},
     ocr_words : {<<>>, <<"letzte", "Mahnung">>}]

\* str.lower on the texts that occur
Lower(w) ==
    CASE w \in {"Mahnung", "MAHNUNG"} -> "mahnung"
      [] w = "ACME" -> "acme"
      [] w = "Telekom" -> "telekom"
      [] w = "Globex" -> "globex"
      [] w = "Globex AG" -> "globex ag"
      [] w = "Initech" -> "initech"
      [] w = "NEW" -> "new"
      [] OTHER -> w

\* DateParser.parse: None for None, else the first format that reads the value
RECURSIVE parse_from(_, _)
parse_from(value, k) ==
    IF k > Len(DATE_FORMATS) THEN <<>>
    ELSE IF value.reads[DATE_FORMATS[k]] # <<>> THEN value.reads[DATE_FORMATS[k]]
         ELSE parse_from(value, k + 1)

DateParser_parse(value) == IF value.is_none THEN <<>> ELSE parse_from(value, 1)

\* UrgencyCalculator._check_due_date_within_days
check_due_date_within_days(metadata, days) ==
    LET due_date == DateParser_parse(metadata.due_date)
    IN IF due_date # <<>> THEN due_date[1] <= days ELSE FALSE

\* UrgencyCalculator._check_keywords_any
check_keywords_any(metadata, keywords) ==
    \E k \in 1..Len(keywords) :
        \E w \in 1..Len(metadata.ocr_words) :
            Lower(keywords[k]) = Lower(metadata.ocr_words[w])

\* metadata.get(field)
MetadataGet(metadata, field) ==
    CASE field = "document_type" -> metadata.document_type
      [] field = "sender" -> metadata.sender
      [] OTHER -> "none"

\* an UrgencyCondition: type, the value for that type, field
Condition(type, days, flag, text, keywords, field) ==
    [type |-> type, days |-> days, flag |-> flag, text |-> text,
     keywords |-> keywords, field |-> field]

Always == Condition("always", 0, TRUE, "none", <<>>, "none")
DueWithin(days) == Condition("due_date_within_days", days, TRUE, "none", <<>>, "none")
HasDueDate(flag) == Condition("has_due_date", 0, flag, "none", <<>>, "none")
DocumentType(text) == Condition("document_type", 0, TRUE, text, <<>>, "none")
KeywordsAny(keywords) == Condition("keywords_any", 0, TRUE, "none", keywords, "none")
FieldEquals(field, text) == Condition("field_equals", 0, TRUE, text, <<>>, field)
Unsupported == Condition("amount_over", 0, TRUE, "none", <<>>, "none")

\* UrgencyCalculator._evaluate_condition
evaluate_condition(condition, metadata) ==
    CASE condition.type = "always" -> TRUE
      [] condition.type = "due_date_within_days" ->
            check_due_date_within_days(metadata, condition.days)
      [] condition.type = "has_due_date" ->
            (~metadata.due_date.is_none) = condition.flag
      [] condition.type = "document_type" ->
            MetadataGet(metadata, "document_type") = condition.text
      [] condition.type = "keywords_any" ->
            check_keywords_any(metadata, condition.keywords)
      [] condition.type = "field_equals" ->
            MetadataGet(metadata, condition.field) = condition.text
      [] OTHER -> FALSE

\* a rule that matches as soon as one of its conditions holds
RECURSIVE evaluate_rule_any(_, _, _)
evaluate_rule_any(rule, metadata, k) ==
    IF k > Len(rule.conditions) THEN FALSE
    ELSE IF evaluate_condition(rule.conditions[k], metadata) THEN TRUE
         ELSE evaluate_rule_any(rule, metadata, k + 1)

\* UrgencyCalculator._evaluate_rule: the loop over rule.conditions from the k-th on
RECURSIVE evaluate_rule(_, _, _)
evaluate_rule(rule, metadata, k) ==
    IF k > Len(rule.conditions) THEN TRUE
    ELSE IF ~evaluate_condition(rule.conditions[k], metadata) THEN FALSE
         ELSE evaluate_rule(rule, metadata, k + 1)

\* the rules a urgency_rules.yaml is made of
Rule(urgency, conditions) == [urgency |-> urgency, conditions |-> conditions]

RuleChoices ==
    {Rule("critical", <<DueWithin(3)>>),
     Rule("low", <<Always>>),
     Rule("high", <<HasDueDate(TRUE), DocumentType("invoice")>>),
     Rule("medium", <<HasDueDate(FALSE)>>),
     Rule("critical", <<KeywordsAny(<<"urgent", "MAHNUNG">>)>>),
     Rule("high", <<FieldEquals("sender", "ACME"), Unsupported>>),
     Rule("critical", <<Unsupported>>),
     Rule("medium", <<>>)}

RuleLists == UNION {[1..n -> RuleChoices] : n \in 0..MaxRules}

\* calculate is called with a metadata map, for some configured list of rules
InitUrgency ==
    /\ PipelineIdle
    /\ matcher_call = NoMatcherCall
    /\ finalize_call = NoFinalizeCall
    /\ pool = NoPool
    /\ worker_call = NoWorkerCall
    /\ llm_call = NoLLMCall
    /\ registry_call = NoRegistryCall
    /\ webhook_call = NoWebhookCall
    /\ tag_call = NoTagCall
    /\ \E m \in MetadataMaps, rs \in RuleLists :
          urgency_call = [pc |-> "loop", metadata |-> m, rules |-> rs, i |-> 1,
                          result |-> "none"]

\* one turn of the loop of calculate: the first rule that matches is returned
CalculateRule ==
    /\ urgency_call.pc = "loop"
    /\ urgency_call.i <= Len(urgency_call.rules)
    /\ LET rule == urgency_call.rules[urgency_call.i]
       IN urgency_call' =
            IF evaluate_rule(rule, urgency_call.metadata, 1)
            THEN [urgency_call EXCEPT !.pc = "returned", !.result = rule.urgency]
            ELSE [urgency_call EXCEPT !.i = @ + 1]
    /\ UNCHANGED <<pipeline_vars, now, sched, matcher_call, finalize_call, pool,
                   worker_call, llm_call,
                   registry_call, webhook_call, tag_call>>

\* after the loop of calculate: return self.DEFAULT_URGENCY
CalculateDefault ==
    /\ urgency_call.pc = "loop"
    /\ urgency_call.i > Len(urgency_call.rules)
    /\ urgency_call' = [urgency_call EXCEPT !.pc = "returned", !.result = DEFAULT_URGENCY]
    /\ UNCHANGED <<pipeline_vars, now, sched, matcher_call, finalize_call, pool,
                   worker_call, llm_call,
                   registry_call, webhook_call, tag_call>>

NextUrgency == CalculateRule \/ CalculateDefault

SpecUrgency == InitUrgency /\ [][NextUrgency]_vars

(***************************************************************************)
(* SenderMatcher (sender_matcher.py)                                       *)
(***************************************************************************)
\* bound: settings.processing.max_correspondents
MaxCorrespondents == 2

\* bound: settings.processing.pagination_limit
PageSize == 1

\* bound: match_sender calls made on one SenderMatcher
MaxMatcherCalls == 2

\* str.strip on the texts that occur
Strip(t) ==
    CASE t = " ACME " -> "ACME"
      [] t = "Telekom " -> "Telekom"
      [] t = "  " -> ""
      [] t = " NEW" -> "NEW"
      [] OTHER -> t

\* the sender names extraction may give; "none" stands for None
ExtractedSenders == {"none", "", "  ", " ACME ", "acme", "Telekom ", "Globex"}

\* the correspondents of the archive, most used first
ArchiveLists ==
    {<<>>, <<"ACME">>, <<"Telekom", "ACME">>, <<"ACME", "Telekom", "Globex AG">>}

\* what llm_caller gives: a text, None ("none") or an exception ("raise")
ModelAnswers == {"NEW", " NEW", "ACME", "acme", "Telekom ", "Globex AG", "Initech",
                 "none", "raise"}

\* the results of GET /api/correspondents/?page=p&page_size=ps
PageResults(archive, p, ps) ==
    SubSeq(archive, (p - 1) * ps + 1,
           IF p * ps < Len(archive) THEN p * ps ELSE Len(archive))

\* the next link of the page
PageNext(archive, p, ps) == p * ps < Len(archive)

\* the for loop over results of _fetch_correspondents: names are appended
\* until max_correspondents are held
RECURSIVE AppendUpTo(_, _, _)
AppendUpTo(correspondents, results, max) ==
    IF results = <<>> \/ Len(correspondents) >= max THEN correspondents
    ELSE AppendUpTo(Append(correspondents, Head(results)), Tail(results), max)

\* the loops of match_sender over existing: the first correspondent whose
\* lower-case form is the lower-case form of t, <<>> if there is none
RECURSIVE FirstLowerMatch(_, _, _)
FirstLowerMatch(existing, t, k) ==
    IF k > Len(existing) THEN <<>>
    ELSE IF Lower(existing[k]) = Lower(t) THEN <<existing[k]>>
         ELSE FirstLowerMatch(existing, t, k + 1)

\* result in existing
InList(t, existing) == \E k \in 1..Len(existing) : existing[k] = t

\* _fetch_correspondents when a request failed (status other than 200, or an
\* exception): the names of the earlier pages are returned
fetch_failure(correspondents) == correspondents

\* match_sender is called with an extracted name, for some archive
InitMatcher ==
    /\ PipelineIdle
    /\ urgency_call = NoUrgencyCall
    /\ finalize_call = NoFinalizeCall
    /\ pool = NoPool
    /\ worker_call = NoWorkerCall
    /\ llm_call = NoLLMCall
    /\ registry_call = NoRegistryCall
    /\ webhook_call = NoWebhookCall
    /\ tag_call = NoTagCall
    /\ \E e \in ExtractedSenders, a \in ArchiveLists, t \in BOOLEAN :
          matcher_call = [NoMatcherCall EXCEPT !.pc = "start", !.extracted = e,
                                               !.archive = a, !.token = t,
                                               !.calls = 1]

\* match_sender up to the call of _fetch_correspondents, and the token check of
\* _fetch_correspondents
MatchSenderStart ==
    /\ matcher_call.pc = "start"
    /\ LET e == matcher_call.extracted
       IN matcher_call' =
            IF e \in {"none", ""}
            THEN [matcher_call EXCEPT !.pc = "returned", !.result = e]
            ELSE IF Strip(e) = ""
                 THEN [matcher_call EXCEPT !.pc = "returned", !.sender = "",
                                           !.result = ""]
                 ELSE [matcher_call EXCEPT !.sender = Strip(e),
                          !.pc = IF matcher_call.token THEN "fetch" ELSE "match"]
    /\ UNCHANGED <<pipeline_vars, now, sched, urgency_call, finalize_call, pool,
                   worker_call, llm_call,
                   registry_call, webhook_call, tag_call>>

\* one turn of the while loop of _fetch_correspondents
FetchPage ==
    /\ matcher_call.pc = "fetch"
    /\ Len(matcher_call.correspondents) < MaxCorrespondents
    /\ \E response \in {"ok", "http_error", "raise"} :
         LET results == PageResults(matcher_call.archive, matcher_call.page, PageSize)
             more == PageNext(matcher_call.archive, matcher_call.page, PageSize)
             m == [matcher_call EXCEPT
                      !.requests = @ + 1,
                      !.fetches = IF matcher_call.requests = 0 THEN @ + 1 ELSE @]
         IN matcher_call' =
              IF response # "ok"
              THEN [m EXCEPT
                        !.pc = "match", !.fetch_failed = TRUE,
                        !.correspondents = fetch_failure(@)]
              ELSE IF results = <<>>
                   THEN [m EXCEPT !.pc = "match"]
                   ELSE [m EXCEPT
                            !.correspondents = AppendUpTo(@, results, MaxCorrespondents),
                            !.page = IF more THEN @ + 1 ELSE @,
                            !.pc = IF more THEN "fetch" ELSE "match"]
    /\ UNCHANGED <<pipeline_vars, now, sched, urgency_call, finalize_call, pool,
                   worker_call, llm_call,
                   registry_call, webhook_call, tag_call>>

\* the while loop of _fetch_correspondents ends: max_correspondents names are held
FetchFull ==
    /\ matcher_call.pc = "fetch"
    /\ Len(matcher_call.correspondents) >= MaxCorrespondents
    /\ matcher_call' = [matcher_call EXCEPT !.pc = "match"]
    /\ UNCHANGED <<pipeline_vars, now, sched, urgency_call, finalize_call, pool,
                   worker_call, llm_call,
                   registry_call, webhook_call, tag_call>>

\* match_sender after the fetch: the empty list, then the exact match
ExactMatch ==
    /\ matcher_call.pc = "match"
    /\ LET existing == matcher_call.correspondents
           hit == FirstLowerMatch(existing, matcher_call.sender, 1)
       IN matcher_call' =
            IF existing = <<>>
            THEN [matcher_call EXCEPT !.pc = "returned", !.result = matcher_call.sender]
            ELSE IF hit # <<>>
                 THEN [matcher_call EXCEPT !.pc = "returned", !.result = hit[1]]
                 ELSE [matcher_call EXCEPT !.pc = "ask"]
    /\ UNCHANGED <<pipeline_vars, now, sched, urgency_call, finalize_call, pool,
                   worker_call, llm_call,
                   registry_call, webhook_call, tag_call>>

\* match_sender: the try block around llm_caller
AskModel ==
    /\ matcher_call.pc = "ask"
    /\ \E answer \in ModelAnswers :
         LET existing == matcher_call.correspondents
             result == Strip(answer)
             hit == FirstLowerMatch(existing, result, 1)
         IN matcher_call' =
              [matcher_call EXCEPT
                 !.pc = "returned",
                 !.answer = answer,
                 !.result =
                    IF answer \in {"none", "raise"} THEN matcher_call.sender
                    ELSE IF result = "NEW" THEN matcher_call.sender
                    ELSE IF InList(result, existing) THEN result
                    ELSE IF hit # <<>> THEN hit[1]
                    ELSE matcher_call.sender]
    /\ UNCHANGED <<pipeline_vars, now, sched, urgency_call, finalize_call, pool,
                   worker_call, llm_call,
                   registry_call, webhook_call, tag_call>>

\* match_sender is called again on the same SenderMatcher, at the same instant:
\* the locals of the call are new, _correspondents_cache is what it was
MatchSenderAgain ==
    /\ matcher_call.pc = "returned"
    /\ matcher_call.calls < MaxMatcherCalls
    /\ \E e \in ExtractedSenders :
          matcher_call' = [NoMatcherCall EXCEPT
                              !.pc = "start", !.extracted = e,
                              !.archive = matcher_call.archive,
                              !.token = matcher_call.token,
                              !.correspondents_cache = matcher_call.correspondents_cache,
                              !.calls = matcher_call.calls + 1,
                              !.fetches = matcher_call.fetches]
    /\ UNCHANGED <<pipeline_vars, now, sched, urgency_call, finalize_call, pool,
                   worker_call, llm_call,
                   registry_call, webhook_call, tag_call>>

NextMatcher ==
    \/ MatchSenderStart
    \/ FetchPage
    \/ FetchFull
    \/ ExactMatch
    \/ AskModel
    \/ MatchSenderAgain

SpecMatcher == InitMatcher /\ [][NextMatcher]_vars

(***************************************************************************)
(* Finalizer.process and the archive calls of PaperlessWebhookService      *)
(***************************************************************************)
\* settings.paperless.processing_tag, enhanced_tag and review_tag
processing_tag == "dedox:processing"
enhanced_tag == "dedox:enhanced"
review_tag == "dedox:needs-review"

\* the tag of _update_tags for an urgency: f"Urgency: {urgency.capitalize()}"
UrgencyTag(urgency) == IF urgency = "critical" THEN "Urgency: Critical" ELSE "Urgency: High"

\* Finalizer._sanitize_name on the names that occur
sanitize_name(name) ==
    CASE name = "The sender is ACME" -> "ACME"
      [] name = "none" -> ""
      [] OTHER -> name

\* the metadata of the context: sender, document_type, urgency, and the
\* keywords, which are mapped to tags of the archive
FinalizeMetadata ==
    [sender : {"none", "The sender is ACME"},
     document_type : {"none", "invoice"},
     urgency : {"low", "critical"},
     keywords : {<<>>, <<"tax">>}]

\* how the archive answers a lookup by name: status 200, another status, or
\* the request raises
LookupAnswers == {"ok", "status", "raise"}

\* the lookup-then-create of get_or_create_tag, _get_or_create_correspondent
\* and _get_or_create_document_type on the list of entities of one kind: a
\* lookup that is not answered with 200 is followed by the create call; accept
\* is whether the archive creates an entity whose name it holds already
GetOrCreate(entities, name, lookup, accept) ==
    LET found == FirstLowerMatch(entities, name, 1)
    IN IF lookup = "raise"
       THEN [entities |-> entities, id |-> "none", creates |-> <<>>]
       ELSE IF lookup = "ok" /\ found # <<>>
            THEN [entities |-> entities, id |-> found[1], creates |-> <<>>]
            ELSE IF found # <<>> /\ ~accept
                 THEN [entities |-> entities, id |-> "none", creates |-> <<name>>]
                 ELSE [entities |-> Append(entities, name), id |-> name,
                       creates |-> <<name>>]

\* PaperlessWebhookService.add_tag_to_document: False without a change of the
\* document when get_or_create_tag raised or a request on the document failed
add_tag_to_document(fc, tag_name, lookup, accept, doc_ok) ==
    LET g == GetOrCreate(fc.tags, tag_name, lookup, accept)
    IN [fc EXCEPT !.tags = g.entities,
                  !.creates = @ \o g.creates,
                  !.request_failed = @ \/ lookup # "ok" \/ ~doc_ok,
                  !.doc_tags = IF g.id # "none" /\ doc_ok THEN @ \cup {g.id} ELSE @]

\* PaperlessWebhookService.remove_tag_from_document: the tag is looked up and
\* never created
remove_tag_from_document(fc, tag_name, lookup, doc_ok) ==
    LET found == FirstLowerMatch(fc.tags, tag_name, 1)
    IN [fc EXCEPT !.request_failed = @ \/ lookup # "ok" \/ ~doc_ok,
                  !.doc_tags = IF lookup = "ok" /\ found # <<>> /\ doc_ok
                               THEN @ \ {found[1]} ELSE @]

\* Finalizer.process is called for a document that has an archive id and the
\* processing tag
InitFinalize ==
    /\ PipelineIdle
    /\ urgency_call = NoUrgencyCall
    /\ matcher_call = NoMatcherCall
    /\ pool = NoPool
    /\ worker_call = NoWorkerCall
    /\ llm_call = NoLLMCall
    /\ registry_call = NoRegistryCall
    /\ webhook_call = NoWebhookCall
    /\ tag_call = NoTagCall
    /\ \E m \in FinalizeMetadata, conf \in OcrConfidences,
          cs \in {<<>>, <<"acme">>} :
          finalize_call =
              [NoFinalizeCall EXCEPT !.pc = "metadata", !.run = 1, !.metadata = m,
                                     !.ocr_confidence = conf,
                                     !.tags = <<processing_tag>>,
                                     !.correspondents = cs,
                                     !.doc_tags = {processing_tag}]

\* finalize_document_processing: update_document_metadata, which adds the tags
\* mapped from the keywords once its patch of the document succeeded
UpdateDocumentMetadata ==
    /\ finalize_call.pc = "metadata"
    /\ \E patch_ok \in BOOLEAN, lookup \in LookupAnswers, accept \in BOOLEAN,
          doc_ok \in BOOLEAN :
         finalize_call' =
            [(IF patch_ok /\ finalize_call.metadata.keywords # <<>>
              THEN add_tag_to_document(finalize_call, finalize_call.metadata.keywords[1],
                                       lookup, accept, doc_ok)
              ELSE finalize_call)
             EXCEPT !.pc = "remove", !.request_failed = @ \/ ~patch_ok]
    /\ UNCHANGED <<pipeline_vars, now, sched, urgency_call, matcher_call, pool,
                   worker_call, llm_call,
                   registry_call, webhook_call, tag_call>>

\* finalize_document_processing: the processing tag is removed
RemoveProcessingTag ==
    /\ finalize_call.pc = "remove"
    /\ \E lookup \in LookupAnswers, doc_ok \in BOOLEAN :
         finalize_call' =
            [remove_tag_from_document(finalize_call, processing_tag, lookup, doc_ok)
             EXCEPT !.pc = "enhanced"]
    /\ UNCHANGED <<pipeline_vars, now, sched, urgency_call, matcher_call, pool,
                   worker_call, llm_call,
                   registry_call, webhook_call, tag_call>>

\* finalize_document_processing with success=True: the enhanced tag is added
AddEnhancedTag ==
    /\ finalize_call.pc = "enhanced"
    /\ \E lookup \in LookupAnswers, accept \in BOOLEAN, doc_ok \in BOOLEAN :
         finalize_call' =
            [add_tag_to_document(finalize_call, enhanced_tag, lookup, accept, doc_ok)
             EXCEPT !.pc = "correspondent"]
    /\ UNCHANGED <<pipeline_vars, now, sched, urgency_call, matcher_call, pool,
                   worker_call, llm_call,
                   registry_call, webhook_call, tag_call>>

\* _update_paperless_webhook: the correspondent of metadata["sender"]
SetCorrespondent ==
    /\ finalize_call.pc = "correspondent"
    /\ \E lookup \in LookupAnswers, accept \in BOOLEAN :
         LET name == sanitize_name(finalize_call.metadata.sender)
             g == GetOrCreate(finalize_call.correspondents, name, lookup, accept)
         IN finalize_call' =
              IF name = ""
              THEN [finalize_call EXCEPT !.pc = "document_type", !.update_data = {}]
              ELSE [finalize_call EXCEPT
                       !.pc = "document_type",
                       !.correspondents = g.entities,
                       !.creates = @ \o g.creates,
                       !.request_failed = @ \/ lookup # "ok",
                       !.update_data = IF g.id # "none"
                                       THEN {<<"correspondent", g.id>>} ELSE {}]
    /\ UNCHANGED <<pipeline_vars, now, sched, urgency_call, matcher_call, pool,
                   worker_call, llm_call,
                   registry_call, webhook_call, tag_call>>

\* _update_paperless_webhook: the document type of metadata["document_type"]
SetDocumentType ==
    /\ finalize_call.pc = "document_type"
    /\ \E lookup \in LookupAnswers, accept \in BOOLEAN :
         LET name == sanitize_name(finalize_call.metadata.document_type)
             g == GetOrCreate(finalize_call.document_types, name, lookup, accept)
         IN finalize_call' =
              IF name = ""
              THEN [finalize_call EXCEPT !.pc = "patch"]
              ELSE [finalize_call EXCEPT
                       !.pc = "patch",
                       !.document_types = g.entities,
                       !.creates = @ \o g.creates,
                       !.request_failed = @ \/ lookup # "ok",
                       !.update_data = IF g.id # "none"
                                       THEN @ \cup {<<"document_type", g.id>>} ELSE @]
    /\ UNCHANGED <<pipeline_vars, now, sched, urgency_call, matcher_call, pool,
                   worker_call, llm_call,
                   registry_call, webhook_call, tag_call>>

\* _update_paperless_webhook: the patch of the document with update_data, then
\* process returns: a patch that raises makes the result a failure
PatchDocument ==
    /\ finalize_call.pc = "patch"
    /\ \E patch \in {"ok", "status", "raise"} :
         finalize_call' =
            IF finalize_call.update_data = {}
            THEN [finalize_call EXCEPT !.pc = "done"]
            ELSE IF patch = "raise"
                 THEN [finalize_call EXCEPT !.pc = "failed"]
                 ELSE [finalize_call EXCEPT
                          !.pc = "done",
                          !.request_failed = @ \/ patch # "ok",
                          !.doc_fields = IF patch = "ok"
                                         THEN finalize_call.update_data ELSE @]
    /\ UNCHANGED <<pipeline_vars, now, sched, urgency_call, matcher_call, pool,
                   worker_call, llm_call,
                   registry_call, webhook_call, tag_call>>

\* the archive as far as idempotence is concerned
ArchiveState(fc) ==
    [tags |-> fc.tags, correspondents |-> fc.correspondents,
     document_types |-> fc.document_types, doc_tags |-> fc.doc_tags]

\* Finalizer.process is called again for the same document
FinalizeAgain ==
    /\ finalize_call.pc = "done"
    /\ finalize_call.run = 1
    /\ finalize_call' = [finalize_call EXCEPT
                            !.pc = "metadata", !.run = 2, !.creates = <<>>,
                            !.update_data = {},
                            !.first = <<ArchiveState(finalize_call)>>]
    /\ UNCHANGED <<pipeline_vars, now, sched, urgency_call, matcher_call, pool,
                   worker_call, llm_call,
                   registry_call, webhook_call, tag_call>>

NextFinalize ==
    \/ UpdateDocumentMetadata
    \/ RemoveProcessingTag
    \/ AddEnhancedTag
    \/ SetCorrespondent
    \/ SetDocumentType
    \/ PatchDocument
    \/ FinalizeAgain

SpecFinalize == InitFinalize /\ [][NextFinalize]_vars

(***************************************************************************)
(* JobWorker.process_all_pending                                           *)
(***************************************************************************)
\* bound: the largest max_concurrent
MaxConcurrent == 2

\* bound: the largest number of QUEUED jobs get_jobs_by_status returns
MaxPending == 4

\* a semaphore that lets every task in
semaphore_free_always(value) == TRUE

\* asyncio.Semaphore: acquire returns at once only while the value is positive
semaphore_free(value) == value > 0

\* the tasks of the call that are inside process_job
Running == {i \in 1..Len(pool.tasks) : pool.tasks[i] = "running"}

\* process_all_pending(max_concurrent) is called while some jobs are QUEUED
InitPool ==
    /\ PipelineIdle
    /\ urgency_call = NoUrgencyCall
    /\ matcher_call = NoMatcherCall
    /\ finalize_call = NoFinalizeCall
    /\ worker_call = NoWorkerCall
    /\ llm_call = NoLLMCall
    /\ registry_call = NoRegistryCall
    /\ webhook_call = NoWebhookCall
    /\ tag_call = NoTagCall
    /\ \E k \in 1..MaxConcurrent, n \in 0..MaxPending :
          pool = [NoPool EXCEPT !.pc = "fetch", !.max_concurrent = k, !.pending = n,
                                !.documents = [i \in 1..n |-> i]]

\* a reprocess request for a Document (DocumentService.reprocess_document,
\* _handle_reprocess_request): the Document is set to PENDING and a new QUEUED
\* Job is created for it, whatever the status of its earlier Jobs
ReprocessRequest(d) ==
    /\ pool.pc = "fetch"
    /\ pool.pending < MaxPending
    /\ pool' = [pool EXCEPT !.pending = @ + 1, !.documents = Append(@, d)]
    /\ UNCHANGED <<pipeline_vars, now, sched, urgency_call, matcher_call, finalize_call,
                   worker_call, llm_call,
                   registry_call, webhook_call, tag_call>>

\* get_jobs_by_status(QUEUED), return 0 when there is none, else the semaphore
\* and one process_with_limit coroutine per job, handed to asyncio.gather
FetchPending ==
    /\ pool.pc = "fetch"
    /\ pool' = IF pool.pending = 0
               THEN [pool EXCEPT !.pc = "returned", !.result = 0]
               ELSE [pool EXCEPT !.pc = "gather",
                                 !.value = pool.max_concurrent,
                                 !.tasks = [i \in 1..pool.pending |-> "waiting"]]
    /\ UNCHANGED <<pipeline_vars, now, sched, urgency_call, matcher_call, finalize_call,
                   worker_call, llm_call,
                   registry_call, webhook_call, tag_call>>

\* process_with_limit: async with semaphore is entered and process_job is called
EnterSemaphore(i) ==
    /\ pool.pc = "gather"
    /\ pool.tasks[i] = "waiting"
    /\ semaphore_free(pool.value)
    /\ pool' = [pool EXCEPT !.value = @ - 1, !.tasks[i] = "running"]
    /\ UNCHANGED <<pipeline_vars, now, sched, urgency_call, matcher_call, finalize_call,
                   worker_call, llm_call,
                   registry_call, webhook_call, tag_call>>

\* process_with_limit: process_job returns and processed is counted, or it
\* raises; the semaphore is released on the way out in both cases
LeaveSemaphore(i) ==
    /\ pool.pc = "gather"
    /\ pool.tasks[i] = "running"
    /\ \E raised \in BOOLEAN :
         pool' = [pool EXCEPT !.value = @ + 1,
                              !.tasks[i] = IF raised THEN "raised" ELSE "finished",
                              !.processed = IF raised THEN @ ELSE @ + 1]
    /\ UNCHANGED <<pipeline_vars, now, sched, urgency_call, matcher_call, finalize_call,
                   worker_call, llm_call,
                   registry_call, webhook_call, tag_call>>

\* asyncio.gather(*tasks, return_exceptions=True) returns once every task has
\* ended, and process_all_pending returns processed
GatherReturns ==
    /\ pool.pc = "gather"
    /\ \A i \in 1..Len(pool.tasks) : pool.tasks[i] \in {"finished", "raised"}
    /\ pool' = [pool EXCEPT !.pc = "returned", !.result = pool.processed]
    /\ UNCHANGED <<pipeline_vars, now, sched, urgency_call, matcher_call, finalize_call,
                   worker_call, llm_call,
                   registry_call, webhook_call, tag_call>>

NextPool ==
    \/ FetchPending
    \/ \E d \in 1..pool.pending : ReprocessRequest(pool.documents[d])
    \/ \E i \in 1..Len(pool.tasks) : EnterSemaphore(i)
    \/ \E i \in 1..Len(pool.tasks) : LeaveSemaphore(i)
    \/ GatherReturns

SpecPool == InitPool /\ [][NextPool]_vars

\* the event loop runs every task that can run, and process_job ends
SpecPoolFair == SpecPool /\ WF_vars(NextPool)

(***************************************************************************)
(* One extraction of LLMExtractor: the requests of the model calls, the    *)
(* recovery from a malformed answer, the cleaning of the values and their  *)
(* confidence (llm_extractor.py)                                           *)
(***************************************************************************)
\* field.type of the configured fields
FieldTypes == {"enum", "boolean", "decimal", "date", "array", "string"}

\* the JSON values a model answers for a field, by what the code tells apart:
\* null; the strings "UNKNOWN" (a placeholder), "invoice" (a member of the
\* enum's values), "INVOICE", "2024-01-15", "15.01.2024", "12,50", "ACME GmbH",
\* "ja"; true and false; the numbers 0 and 12.5; ["a", "b"] and []
StringValues ==
    {"str_unknown", "str_member", "str_member_upper", "str_iso_date",
     "str_german_date", "str_number", "str_text", "str_yes"}
JsonValues == {"null", "true", "false", "zero", "number", "list", "empty_list"}
                 \cup StringValues

\* the value the response schema asks for, by field type (_build_json_schema)
ValidValues(type) ==
    CASE type = "enum" -> {"str_member"}
      [] type = "boolean" -> {"true", "false"}
      [] type = "decimal" -> {"zero", "number"}
      [] type = "date" -> {"str_iso_date"}
      [] type = "array" -> {"list", "empty_list"}
      [] OTHER -> {"str_text", "str_member", "str_member_upper", "str_iso_date",
                   "str_german_date", "str_number", "str_yes"}

\* _clean_extracted_value that drops every falsy value
clean_extracted_value_dropping_falsy(value, type) ==
    IF value \in {"null", "str_unknown", "false", "zero", "empty_list"} THEN "None"
    ELSE IF type = "enum" THEN "str_member"
    ELSE value

\* LLMExtractor._clean_extracted_value(value, field_type, allowed_values); the
\* result is a value as above, "float_zero" / "float" for float(value),
\* "str_of_value" for str(value), or "None"
clean_extracted_value(value, type) ==
    IF value \in {"null", "str_unknown"} THEN "None"
    ELSE CASE type = "enum" ->
                IF value \in {"str_member", "str_member_upper"} THEN "str_member"
                ELSE "None"
           [] type = "boolean" ->
                IF value \in {"true", "false"} THEN value
                ELSE IF value = "str_yes" THEN "true"
                ELSE "false"
           [] type = "decimal" ->
                IF value \in {"zero", "false"} THEN "float_zero"
                ELSE IF value \in {"number", "true", "str_number"} THEN "float"
                ELSE "None"
           [] type = "date" ->
                IF value = "str_iso_date" THEN value ELSE "None"
           [] type = "array" ->
                IF value \in {"list", "empty_list"} THEN value
                ELSE IF value \in StringValues THEN "list"
                ELSE "None"
           [] OTHER ->
                IF value \in {"false", "zero", "empty_list"} THEN "None"
                ELSE IF value \in StringValues THEN value
                ELSE "str_of_value"

\* LLMExtractor._parse_response(response, field_type, allowed_values) on the
\* text the free-text endpoint returned
parse_response(response, type) ==
    IF response = "str_unknown" THEN "None"
    ELSE CASE type = "enum" ->
                IF response \in {"str_member", "str_member_upper"} THEN "str_member"
                ELSE "None"
           [] type = "boolean" ->
                IF response = "str_yes" THEN "true" ELSE "false"
           [] type = "decimal" ->
                IF response \in {"str_number", "str_iso_date"} THEN "float" ELSE "None"
           [] OTHER -> response

\* a fraction n / d
Frac(n, d) == <<n, d>>

\* len(str(value)) > STRING_LENGTH_THRESHOLD
LongerThanThreshold(value) == value \notin {"str_yes", "empty_list"}

\* an estimate on the percent scale of the OCR confidence
estimate_percent(value, type) == IF value = "None" THEN Frac(0, 1) ELSE Frac(90, 1)

\* ConfidenceEstimator.estimate(value, field_type, allowed_values)
estimate(value, type) ==
    IF value = "None" THEN Frac(0, 10)
    ELSE CASE type = "enum" ->
                IF value = "str_member" THEN Frac(9, 10) ELSE Frac(5, 10)
           [] type = "date" ->
                IF value = "str_iso_date" THEN Frac(85, 100) ELSE Frac(5, 10)
           [] type = "decimal" ->
                IF value \in {"float", "float_zero"} THEN Frac(8, 10) ELSE Frac(5, 10)
           [] type = "boolean" -> Frac(85, 100)
           [] OTHER ->
                IF LongerThanThreshold(value) THEN Frac(75, 100) ELSE Frac(5, 10)

\* a / b + c / d and w * (a / b)
FracAdd(x, y) == Frac(x[1] * y[2] + y[1] * x[2], x[2] * y[2])
FracScale(w, x) == Frac(w * x[1], x[2])

\* the configured fields the lists are drawn from (MetadataField: name and type;
\* an enum field has values), in the order of the configuration file
FieldCatalogue ==
    <<[name |-> "document_type", type |-> "enum"],
      [name |-> "sender", type |-> "string"],
      [name |-> "document_date", type |-> "date"],
      [name |-> "total_amount", type |-> "decimal"],
      [name |-> "tax_relevant", type |-> "boolean"],
      [name |-> "keywords", type |-> "array"]>>

\* get_metadata_fields().fields: the lists of at most two of these fields
FieldLists ==
    {<<>>} \cup {<<FieldCatalogue[i]>> : i \in 1..Len(FieldCatalogue)}
           \cup {<<FieldCatalogue[ij[1]], FieldCatalogue[ij[2]]>> :
                    ij \in {p \in (1..Len(FieldCatalogue)) \X (1..Len(FieldCatalogue)) :
                               p[1] < p[2]}}

\* the keys of a dict kept as a set of <<key, value>> pairs
Keys(dict) == {p[1] : p \in dict}

\* dict[key] = value
DictSet(dict, key, value) == {p \in dict : p[1] # key} \cup {<<key, value>>}

\* the loop over the fields of _extract_all_fields_structured and
\* _extract_with_vision: response_json.get(field.name) is cleaned, a value that
\* is not None is kept with its confidence
RECURSIVE FieldsLoop(_, _, _, _)
FieldsLoop(fields, i, reply, dicts) ==
    IF i > Len(fields) THEN dicts
    ELSE LET value == clean_extracted_value(reply[i], fields[i].type)
         IN FieldsLoop(fields, i + 1, reply,
                IF value # "None"
                THEN [extracted |-> DictSet(dicts.extracted, fields[i].name, value),
                      confidence |-> DictSet(dicts.confidence, fields[i].name,
                                             estimate(value, fields[i].type))]
                ELSE dicts)

\* ExtractedMetadata.calculate_overall_confidence: the weights of the scores
RequiredFields == {"document_type", "sender", "document_date"}
Weight(name) == IF name \in RequiredFields THEN 2 ELSE 1

RECURSIVE WeightedSum(_)
WeightedSum(scores) ==
    IF scores = {} THEN Frac(0, 1)
    ELSE LET p == CHOOSE q \in scores : TRUE
         IN FracAdd(FracScale(Weight(p[1]), p[2]), WeightedSum(scores \ {p}))

RECURSIVE TotalWeight(_)
TotalWeight(scores) ==
    IF scores = {} THEN 0
    ELSE LET p == CHOOSE q \in scores : TRUE
         IN Weight(p[1]) + TotalWeight(scores \ {p})

calculate_overall_confidence(scores) ==
    IF scores = {} THEN Frac(0, 1)
    ELSE LET s == WeightedSum(scores)
         IN Frac(s[1], s[2] * TotalWeight(scores))

\* what one request of the loop body meets: an answer that is JSON (an object,
\* or another JSON value), text around a JSON object, text with braces that
\* are no JSON, text without braces, a status other than 200, a timeout, a
\* refused connection
ChatAnswers ==
    {"json", "json_not_object", "json_in_text", "broken_span", "no_json", "status",
     "timeout", "connect_error"}

\* the free-text endpoint: any text is an answer
GenerateAnswers == {"text", "status", "timeout", "connect_error"}

\* the answers of the model to the fields of a list
Replies(fields) == [1..Len(fields) -> JsonValues]

\* the content of an answer that is read: a value for every field in a JSON
\* object, a text for the field the free-text endpoint is asked for
RepliesTo(c, answer) ==
    IF answer \in {"json", "json_in_text"} THEN Replies(c.fields)
    ELSE IF answer = "text"
         THEN {[i \in 1..Len(c.fields) |-> IF i = c.field THEN t ELSE "null"] :
                  t \in StringValues}
         ELSE {[i \in 1..Len(c.fields) |-> "null"]}

\* a confidence that has not been written (None)
NoConfidence == <<>>

\* the word confidences image_to_data reports for a page ("-1" entries and
\* entries that are no digits are left out by the code)
WordConfidences == {<<>>, <<91, 96>>}

RECURSIVE Sum(_, _)
Sum(seq, i) == IF i > Len(seq) THEN 0 ELSE seq[i] + Sum(seq, i + 1)

\* OCRProcessor._process_single_image: sum(confidences) / len(confidences), or 0
avg_confidence(confidences) ==
    IF confidences = <<>> THEN Frac(0, 1) ELSE Frac(Sum(confidences, 1), Len(confidences))

\* LLMExtractor.process is entered: nothing has been asked yet; ocr_confidence
\* is what the OCR stage wrote to the context (nothing in vision mode)
NewExtraction(vision, max_retries, fields, ocr_confidence) ==
    [pc |-> "request", vision |-> vision, max_retries |-> max_retries,
     fields |-> fields, kind |-> IF vision THEN "chat_vl" ELSE "chat",
     field |-> 0, attempt |-> 0, requests |-> 0, calls |-> <<>>, steps |-> <<>>,
     parsed_by |-> "none", response |-> <<>>, extracted |-> {}, confidence |-> {},
     metadata |-> {}, overall |-> NoConfidence, ocr_confidence |-> ocr_confidence,
     stage |-> "none"]

InitLLM ==
    /\ PipelineIdle
    /\ urgency_call = NoUrgencyCall
    /\ matcher_call = NoMatcherCall
    /\ finalize_call = NoFinalizeCall
    /\ pool = NoPool
    /\ worker_call = NoWorkerCall
    /\ registry_call = NoRegistryCall
    /\ webhook_call = NoWebhookCall
    /\ tag_call = NoTagCall
    /\ \E vision \in BOOLEAN, m \in 0..MaxLLMRetries, fields \in FieldLists,
          words \in WordConfidences :
          llm_call = NewExtraction(vision, m, fields,
                                   IF vision THEN NoConfidence
                                   ELSE avg_confidence(words))

\* the end of LLMExtractor.process after the extraction returned: the urgency
\* is added, the overall confidence is calculated, the stage result is ok
FinishProcess(c) ==
    [c EXCEPT !.pc = "done",
              !.metadata = DictSet(c.extracted, "urgency", "level"),
              !.overall = calculate_overall_confidence(c.confidence),
              !.ocr_confidence = IF c.vision THEN Frac(VLConfidence, 1) ELSE @,
              !.stage = "ok"]

\* the except blocks of LLMExtractor.process: ProcessorResult.fail
FailProcess(c) == [c EXCEPT !.pc = "done", !.stage = "fail"]

\* _extract_fields_individually is entered: the free-text endpoint is asked for
\* the first field
StartPerField(c) ==
    LET c1 == [c EXCEPT !.steps = Append(@, "per_field"),
                        !.extracted = {}, !.confidence = {}]
    IN IF c.fields = <<>> THEN FinishProcess(c1)
       ELSE [c1 EXCEPT !.kind = "generate", !.field = 1, !.attempt = 0, !.requests = 0]

\* _extract_fields_individually after the call for one field: the value that
\* is not None is kept, an exception is logged, the loop goes on
AfterFieldCall(c, error, text) ==
    LET f == c.fields[c.field]
        value == parse_response(text, f.type)
        c1 == IF error = "none" /\ value # "None"
              THEN [c EXCEPT !.extracted = DictSet(@, f.name, value),
                             !.confidence = DictSet(@, f.name, estimate(value, f.type))]
              ELSE c
    IN IF c.field < Len(c.fields)
       THEN [c1 EXCEPT !.field = @ + 1, !.attempt = 0, !.requests = 0]
       ELSE FinishProcess(c1)

\* what the caller does when a model call has returned or raised: error is
\* "none", "LLMError" or "JSONDecodeError"; parsed tells whether the parsed
\* answer is a JSON object
AfterCall(c, error, parsed, reply) ==
    LET dicts == FieldsLoop(c.fields, 1, reply, [extracted |-> {}, confidence |-> {}])
        filled == [c EXCEPT !.extracted = dicts.extracted,
                            !.confidence = dicts.confidence]
    IN CASE c.kind = "chat_vl" ->
              IF error = "none" /\ parsed = "object" THEN FinishProcess(filled)
              ELSE FailProcess(c)
         [] c.kind = "chat" ->
              IF error = "none" /\ parsed = "object" THEN FinishProcess(filled)
              ELSE StartPerField(c)
         [] OTHER -> AfterFieldCall(c, error, reply[c.field])

\* one pass of the loop body of _call_ollama_chat, _call_ollama_chat_vl or
\* _call_ollama: the request is sent; a timeout before the last attempt goes on
\* with the loop, every other end of the request ends the call
Request(answer, reply) ==
    /\ llm_call.pc = "request"
    /\ llm_call.attempt < llm_call.max_retries
    /\ answer \in (IF llm_call.kind = "generate" THEN GenerateAnswers ELSE ChatAnswers)
    /\ LET c == [llm_call EXCEPT !.requests = @ + 1]
           ended(error, steps, by) ==
               [c EXCEPT !.calls = Append(@, [kind |-> c.kind, requests |-> c.requests,
                                              answer |-> answer, error |-> error]),
                         !.steps = @ \o steps,
                         !.parsed_by = by,
                         !.response = IF answer \in {"json", "json_in_text"}
                                      THEN reply ELSE @]
       IN llm_call' =
            CASE answer = "timeout" ->
                   IF c.attempt < c.max_retries - 1
                   THEN [c EXCEPT !.attempt = @ + 1]
                   ELSE AfterCall(ended("LLMError", <<>>, "none"), "LLMError", "none", reply)
              [] answer \in {"connect_error", "status"} ->
                   AfterCall(ended("LLMError", <<>>, "none"), "LLMError", "none", reply)
              [] answer = "json" ->
                   AfterCall(ended("none", <<"strict">>, "strict"), "none", "object", reply)
              [] answer = "json_not_object" ->
                   AfterCall(ended("none", <<"strict">>, "strict"), "none", "other", reply)
              [] answer = "json_in_text" ->
                   AfterCall(ended("none", <<"strict", "span">>, "span"),
                             "none", "object", reply)
              [] answer = "broken_span" ->
                   AfterCall(ended("JSONDecodeError", <<"strict", "span">>, "none"),
                             "JSONDecodeError", "none", reply)
              [] answer = "no_json" ->
                   AfterCall(ended("LLMError", <<"strict", "span">>, "none"),
                             "LLMError", "none", reply)
              [] OTHER ->
                   AfterCall(ended("none", <<>>, c.parsed_by), "none", "text", reply)
    /\ UNCHANGED <<pipeline_vars, now, sched, urgency_call, matcher_call, finalize_call,
                   pool, worker_call, registry_call, webhook_call, tag_call>>

\* the for loop of a model call ends without a request left: LLMError("Max
\* retries exceeded")
LoopEnds ==
    /\ llm_call.pc = "request"
    /\ llm_call.attempt >= llm_call.max_retries
    /\ llm_call' =
         AfterCall([llm_call EXCEPT
                       !.calls = Append(@, [kind |-> llm_call.kind,
                                            requests |-> llm_call.requests,
                                            answer |-> "none", error |-> "LLMError"])],
                   "LLMError", "none", [i \in 1..Len(llm_call.fields) |-> "null"])
    /\ UNCHANGED <<pipeline_vars, now, sched, urgency_call, matcher_call, finalize_call,
                   pool, worker_call, registry_call, webhook_call, tag_call>>

NextLLM ==
    \/ \E answer \in ChatAnswers \cup GenerateAnswers :
         \E reply \in RepliesTo(llm_call, answer) : Request(answer, reply)
    \/ LoopEnds

SpecLLM == InitLLM /\ [][NextLLM]_vars

(***************************************************************************)
(* Specification of a ProcessorRegistry under any calls of register,       *)
(* unregister, clear and get_ordered_processors (registry.py)              *)
(***************************************************************************)
InitRegistry ==
    /\ PipelineIdle
    /\ urgency_call = NoUrgencyCall
    /\ matcher_call = NoMatcherCall
    /\ finalize_call = NoFinalizeCall
    /\ pool = NoPool
    /\ worker_call = NoWorkerCall
    /\ llm_call = NoLLMCall
    /\ registry_call = NoRegistryCall
    /\ webhook_call = NoWebhookCall
    /\ tag_call = NoTagCall

\* the registry after a call: procs is _processors after it, listed the list
\* the last get_ordered_processors returned
RegistryAfter(op, arg, procs, listed) ==
    [processors |-> procs,
     calls |-> Append(registry_call.calls, [op |-> op, arg |-> arg]),
     ordered |-> listed]

\* registry.register(processor_class)
RegisterCall(cls) ==
    /\ Len(registry_call.calls) < MaxRegistryCalls
    /\ registry_call' = RegistryAfter("register", cls,
                                       RegistryRegister(registry_call.processors, cls),
                                       registry_call.ordered)
    /\ UNCHANGED <<pipeline_vars, now, sched, urgency_call, matcher_call, finalize_call,
                   pool, worker_call, llm_call, webhook_call, tag_call>>

\* registry.unregister(stage)
UnregisterCall(stage) ==
    /\ Len(registry_call.calls) < MaxRegistryCalls
    /\ registry_call' = RegistryAfter("unregister", stage,
                                       RegistryUnregister(registry_call.processors, stage),
                                       registry_call.ordered)
    /\ UNCHANGED <<pipeline_vars, now, sched, urgency_call, matcher_call, finalize_call,
                   pool, worker_call, llm_call, webhook_call, tag_call>>

\* registry.clear()
ClearCall ==
    /\ Len(registry_call.calls) < MaxRegistryCalls
    /\ registry_call' = RegistryAfter("clear", "none",
                                       RegistryClear(registry_call.processors),
                                       registry_call.ordered)
    /\ UNCHANGED <<pipeline_vars, now, sched, urgency_call, matcher_call, finalize_call,
                   pool, worker_call, llm_call, webhook_call, tag_call>>

\* registry.get_ordered_processors()
GetOrderedCall ==
    /\ Len(registry_call.calls) < MaxRegistryCalls
    /\ registry_call' = RegistryAfter("get_ordered_processors", "none",
                                       registry_call.processors,
                                       get_ordered_processors(registry_call.processors))
    /\ UNCHANGED <<pipeline_vars, now, sched, urgency_call, matcher_call, finalize_call,
                   pool, worker_call, llm_call, webhook_call, tag_call>>

NextRegistry ==
    \/ \E cls \in ProcessorClasses : RegisterCall(cls)
    \/ \E stage \in Stages : UnregisterCall(stage)
    \/ ClearCall
    \/ GetOrderedCall

SpecRegistry == InitRegistry /\ [][NextRegistry]_vars

(***************************************************************************)
(* Webhook deliveries (api/routes/webhooks.py): every delivery is handled  *)
(* by a background task running _process_paperless_document                *)
(***************************************************************************)
\* bound: the deliveries of a behaviour
MaxDeliveries == 2

\* the archive ids the deliveries are about
WebhookIds == {ArchiveId, ArchiveId + 1}

\* the tags of the payload that the handler looks at
PayloadTags == {"none", "enhanced", "reprocess"}

\* DocumentRepository.get_by_paperless_id: the rows with the id
RowsOf(documents, id) == {k \in 1..Len(documents) : documents[k] = id}

\* webhooks start from empty tables
InitWebhook ==
    /\ PipelineIdle
    /\ urgency_call = NoUrgencyCall
    /\ matcher_call = NoMatcherCall
    /\ finalize_call = NoFinalizeCall
    /\ pool = NoPool
    /\ worker_call = NoWorkerCall
    /\ llm_call = NoLLMCall
    /\ registry_call = NoRegistryCall
    /\ tag_call = NoTagCall
    /\ webhook_call = NoWebhookCall

\* the webhook route: background_tasks.add_task(_process_paperless_document, ...)
Deliver(id, tags, file) ==
    /\ Len(webhook_call.tasks) < MaxDeliveries
    /\ webhook_call' = [webhook_call EXCEPT
          !.tasks = Append(@, [paperless_id |-> id, tags |-> tags, file |-> file,
                               pc |-> "start", document |-> 0])]
    /\ UNCHANGED <<pipeline_vars, now, sched, urgency_call, matcher_call, finalize_call,
                   pool, worker_call, llm_call, registry_call, tag_call>>

\* _process_paperless_document up to the duplicate check; with the reprocess
\* tag _handle_reprocess_request creates a further Job for a Document that
\* exists and the task ends, else the task goes on as for a new document
StartDelivery(t) ==
    /\ webhook_call.tasks[t].pc = "start"
    /\ LET task == webhook_call.tasks[t]
           rows == RowsOf(webhook_call.documents, task.paperless_id)
       IN webhook_call' =
            IF task.tags = "reprocess" /\ rows # {}
            THEN [webhook_call EXCEPT
                    !.tasks[t].pc = "done",
                    !.jobs = Append(@, [document |-> CHOOSE k \in rows :
                                                       \A m \in rows : k <= m,
                                        source |-> "reprocess"])]
            ELSE [webhook_call EXCEPT !.tasks[t].pc = "check"]
    /\ UNCHANGED <<pipeline_vars, now, sched, urgency_call, matcher_call, finalize_call,
                   pool, worker_call, llm_call, registry_call, tag_call>>

\* existing = await doc_repo.get_by_paperless_id(paperless_id), and the test
\* for the enhanced tag
CheckExisting(t) ==
    /\ webhook_call.tasks[t].pc = "check"
    /\ LET task == webhook_call.tasks[t]
       IN webhook_call' =
            [webhook_call EXCEPT !.tasks[t].pc =
                IF RowsOf(webhook_call.documents, task.paperless_id) # {} THEN "done"
                ELSE IF task.tags = "enhanced" THEN "done"
                ELSE IF task.file THEN "create" ELSE "download"]
    /\ UNCHANGED <<pipeline_vars, now, sched, urgency_call, matcher_call, finalize_call,
                   pool, worker_call, llm_call, registry_call, tag_call>>

\* _create_new_document: the file is downloaded when the delivery had none
DownloadDocument(t) ==
    /\ webhook_call.tasks[t].pc = "download"
    /\ \E ok \in BOOLEAN :
         webhook_call' = [webhook_call EXCEPT
                             !.tasks[t].pc = IF ok THEN "create" ELSE "done"]
    /\ UNCHANGED <<pipeline_vars, now, sched, urgency_call, matcher_call, finalize_call,
                   pool, worker_call, llm_call, registry_call, tag_call>>

\* _create_new_document: await doc_repo.create(document)
CreateDocument(t) ==
    /\ webhook_call.tasks[t].pc = "create"
    /\ webhook_call' = [webhook_call EXCEPT
          !.documents = Append(@, webhook_call.tasks[t].paperless_id),
          !.tasks[t].document = Len(webhook_call.documents) + 1,
          !.tasks[t].pc = "create_job"]
    /\ UNCHANGED <<pipeline_vars, now, sched, urgency_call, matcher_call, finalize_call,
                   pool, worker_call, llm_call, registry_call, tag_call>>

\* _create_new_document: await job_repo.create(JobCreate(document_id=document.id,
\* source="paperless_webhook")) for the row the task has created
CreateInitialJob(t) ==
    /\ webhook_call.tasks[t].pc = "create_job"
    /\ webhook_call' = [webhook_call EXCEPT
          !.jobs = Append(@, [document |-> webhook_call.tasks[t].document,
                              source |-> "paperless_webhook"]),
          !.tasks[t].pc = "done"]
    /\ UNCHANGED <<pipeline_vars, now, sched, urgency_call, matcher_call, finalize_call,
                   pool, worker_call, llm_call, registry_call, tag_call>>

NextWebhook ==
    \/ \E id \in WebhookIds, tags \in PayloadTags, file \in BOOLEAN :
          Deliver(id, tags, file)
    \/ \E t \in 1..Len(webhook_call.tasks) : StartDelivery(t)
    \/ \E t \in 1..Len(webhook_call.tasks) : CheckExisting(t)
    \/ \E t \in 1..Len(webhook_call.tasks) : DownloadDocument(t)
    \/ \E t \in 1..Len(webhook_call.tasks) : CreateDocument(t)
    \/ \E t \in 1..Len(webhook_call.tasks) : CreateInitialJob(t)

SpecWebhook == InitWebhook /\ [][NextWebhook]_vars

(***************************************************************************)
(* Specification of the tag mutations PaperlessWebhookService sends for    *)
(* one document of the archive: each call is a task of the event loop that *)
(* reads the document's tag list and writes the whole list back            *)
(***************************************************************************)
\* bound: the tag mutations under way for the document
MaxTagCalls == 2

\* the tags the pipeline sets and clears on a document of the archive
TagNames == {"processing", "enhanced", "error"}

\* the status codes of the archive's responses
StatusCodes == {200, 500}

InitTags ==
    /\ PipelineIdle
    /\ urgency_call = NoUrgencyCall
    /\ matcher_call = NoMatcherCall
    /\ finalize_call = NoFinalizeCall
    /\ pool = NoPool
    /\ worker_call = NoWorkerCall
    /\ llm_call = NoLLMCall
    /\ registry_call = NoRegistryCall
    /\ webhook_call = NoWebhookCall
    /\ \E tags \in SUBSET TagNames : tag_call = [tasks |-> <<>>, doc_tags |-> tags]

\* add_tag_to_document or remove_tag_from_document is called for a tag no
\* other call is about; the tag's id is resolved
CallTagMutation(op, tag) ==
    /\ Len(tag_call.tasks) < MaxTagCalls
    /\ \A t \in 1..Len(tag_call.tasks) : tag_call.tasks[t].tag # tag
    /\ tag_call' = [tag_call EXCEPT
          !.tasks = Append(@, [op |-> op, tag |-> tag, pc |-> "get",
                               current_tags |-> {}, result |-> "none"])]
    /\ UNCHANGED <<pipeline_vars, now, sched, urgency_call, matcher_call, finalize_call,
                   pool, worker_call, llm_call, registry_call, webhook_call>>

\* the list the call sends back: the tag appended, or the tag removed
MutatedTags(op, tag, current_tags) ==
    IF op = "add" THEN current_tags \cup {tag} ELSE current_tags \ {tag}

\* response = await client.get("/api/documents/{id}/"): the call ends with
\* False on a status other than 200, with True when the list needs no change
GetDocumentTags(t, status) ==
    /\ tag_call.tasks[t].pc = "get"
    /\ LET task == tag_call.tasks[t]
           new == MutatedTags(task.op, task.tag, tag_call.doc_tags)
       IN tag_call' = [tag_call EXCEPT !.tasks[t] =
            IF status # 200
            THEN [task EXCEPT !.pc = "done", !.result = "false"]
            ELSE IF new = tag_call.doc_tags
                 THEN [task EXCEPT !.pc = "done", !.result = "true"]
                 ELSE [task EXCEPT !.pc = "patch", !.current_tags = new]]
    /\ UNCHANGED <<pipeline_vars, now, sched, urgency_call, matcher_call, finalize_call,
                   pool, worker_call, llm_call, registry_call, webhook_call>>

\* response = await client.patch(..., json={"tags": current_tags}): the
\* archive replaces the document's tag list by the one sent
PatchDocumentTags(t, status) ==
    /\ tag_call.tasks[t].pc = "patch"
    /\ tag_call' =
         IF status # 200
         THEN [tag_call EXCEPT !.tasks[t].pc = "done", !.tasks[t].result = "false"]
         ELSE [tag_call EXCEPT !.tasks[t].pc = "done", !.tasks[t].result = "true",
                               !.doc_tags = tag_call.tasks[t].current_tags]
    /\ UNCHANGED <<pipeline_vars, now, sched, urgency_call, matcher_call, finalize_call,
                   pool, worker_call, llm_call, registry_call, webhook_call>>

NextTags ==
    \/ \E op \in {"add", "remove"}, tag \in TagNames : CallTagMutation(op, tag)
    \/ \E t \in 1..Len(tag_call.tasks), status \in StatusCodes : GetDocumentTags(t, status)
    \/ \E t \in 1..Len(tag_call.tasks), status \in StatusCodes : PatchDocumentTags(t, status)

SpecTags == InitTags /\ [][NextTags]_vars

(***************************************************************************)
(* Properties                                                              *)
(***************************************************************************)
EventIdx == 1..Len(events)

\* the stage of event i returned a failure result or raised in process
FailedAt(i) == events[i].op = "process" /\ events[i].res \in {"fail", "raise"}

\* position of a stage in the fixed order
Pos(s) == CHOOSE i \in 1..Len(StageOrder) : StageOrder[i] = s

\* stage t was skipped or completed successfully before event i
DoneBefore(t, i) ==
    \E k \in 1..(i - 1) :
        /\ events[k].stage = t
        /\ \/ events[k].op = "can_process" /\ events[k].res = "false"
           \/ events[k].op = "process" /\ events[k].res = "ok"

\* the run has returned after every registered stage was skipped or succeeded
AllStagesDone ==
    /\ pc = "returned"
    /\ ordered # <<>>
    /\ Cardinality({i \in EventIdx : events[i].op = "can_process"}) = Len(ordered)
    /\ \A i \in EventIdx : events[i].res \notin {"fail", "raise"}

\* C1: whenever a started stage returns a failure result or raises in
\* process, the run has ended with the Job FAILED (object and row), the
\* Document FAILED (object and row), one rollback call with the context's
\* archive id, else the document's, and nothing but the cleanup of the failed
\* stage after the failing call
C1_StageFailureStopsPipeline ==
    \A i \in EventIdx :
        FailedAt(i) =>
            /\ pc = "returned"
            /\ job.status = "failed"
            /\ jobs_table[1].status = "failed"
            /\ document.status = "failed"
            /\ docs_table[1].status = "failed"
            /\ rollbacks = <<IF context.paperless_id # NoId THEN context.paperless_id
                             ELSE document.paperless_id>>
            /\ \A k \in EventIdx :
                   k > i => events[k].op = "cleanup" /\ events[k].stage = events[i].stage

\* a stage raised in process while later stages were still to come, for a
\* document that is in the archive
C1_Witness ==
    \E i \in EventIdx :
        /\ FailedAt(i)
        /\ events[i].res = "raise"
        /\ idx < Len(ordered)
        /\ rollbacks = <<ArchiveId>>

\* C2: the k-th stage visited is the k-th registered stage of the fixed
\* order, only registered stages are visited, a stage is visited only after
\* every earlier registered stage was skipped or succeeded, and process is
\* called only on the stage whose can_process was just true
C2_FixedStageOrder ==
    \A i \in EventIdx :
        LET s == events[i].stage
            earlier == {t \in DOMAIN processors : Pos(t) < Pos(s)}
        IN /\ s \in DOMAIN processors
           /\ events[i].op = "can_process" =>
                 /\ Cardinality({k \in 1..(i - 1) : events[k].op = "can_process"})
                        = Cardinality(earlier)
                 /\ \A t \in earlier : DoneBefore(t, i)
           /\ events[i].op = "process" =>
                 /\ i > 1
                 /\ events[i - 1] = [op |-> "can_process", stage |-> s, res |-> "true"]

\* a run over three registered stages, the ocr stage not among them, in which
\* the last stage started after an earlier one was skipped
C2_Witness ==
    /\ Cardinality(DOMAIN processors) = 3
    /\ "ocr" \notin DOMAIN processors
    /\ \E i, k \in EventIdx :
          /\ i < k
          /\ events[i].op = "can_process" /\ events[i].res = "false"
          /\ events[k].op = "process" /\ events[k].stage = "finalization"

\* C3 as stated: after every registered stage succeeded or was skipped the
\* Job is COMPLETED with the result snapshot, the context is copied onto the
\* Document, and the Document is FAILED exactly when the context carries
\* warnings
C3_WarningsFailDocument ==
    AllStagesDone =>
        /\ job.status = "completed"
        /\ job.result = [empty |-> FALSE, paperless_id |-> context.paperless_id,
                         ocr_confidence |-> context.ocr_confidence,
                         metadata |-> context.metadata]
        /\ document.paperless_id = context.paperless_id
        /\ document.ocr_text = context.ocr_text
        /\ document.ocr_confidence = context.ocr_confidence
        /\ document.metadata = context.metadata
        /\ document.status = IF context.warnings # <<>> THEN "failed" ELSE "completed"

\* C3 amended: with at least one stage registered, after every registered
\* stage succeeded or was skipped the Job is COMPLETED with the result
\* snapshot (object and row), the context is copied onto the Document, and the
\* Document (object and row) is FAILED exactly when the context carries
\* errors; warnings do not count
C3_ErrorsFailDocument ==
    AllStagesDone =>
        /\ job.status = "completed"
        /\ job.result = [empty |-> FALSE, paperless_id |-> context.paperless_id,
                         ocr_confidence |-> context.ocr_confidence,
                         metadata |-> context.metadata]
        /\ jobs_table[1].status = "completed"
        /\ jobs_table[1].result = job.result
        /\ document.paperless_id = context.paperless_id
        /\ document.ocr_text = context.ocr_text
        /\ document.ocr_confidence = context.ocr_confidence
        /\ document.metadata = context.metadata
        /\ document.status = IF context.errors # <<>> THEN "failed" ELSE "completed"
        /\ docs_table[1].status = document.status

\* a completed run whose context carries a warning and no error
C3_Witness ==
    /\ AllStagesDone
    /\ context.warnings # <<>>
    /\ context.errors = <<>>
    /\ document.status = "completed"

\* C4: a run in which the metadata_extraction stage of LLMExtractor was
\* processed while the language model refused every connection ends with the
\* Job FAILED, the Document FAILED and exactly one rollback call
C4_ConnectErrorFailsJob ==
    ( /\ pc = "returned"
      /\ llm = "connect_error"
      /\ \E i \in EventIdx :
            events[i].op = "process" /\ events[i].stage = "metadata_extraction" )
    => /\ job.status = "failed"
       /\ document.status = "failed"
       /\ Len(rollbacks) = 1

\* C5, state part: retry_count never exceeds max_retries, and a run started
\* by retry_job begins at the first registered stage
C5_RetryInv ==
    /\ jobs_table[1].retry_count <= jobs_table[1].max_retries
    /\ job.retry_count <= job.max_retries
    /\ (caller = "retry" /\ pc \in {"loop", "stage", "returned"} /\ events # <<>>) =>
          events[1] \in {[op |-> "can_process", stage |-> StageOrder[1], res |-> r] :
                            r \in {"true", "false"}}

\* C5, step part: retry_count changes only in a permitted retry_job, by one,
\* with stage history, completed_at, errors and result cleared; the run it
\* starts is entered at the first processor with no stage recorded
C5_RetryStep ==
    LET row == jobs_table[1]
        row2 == jobs_table'[1]
    IN /\ (row2.retry_count # row.retry_count \/ pc' = "retrying") =>
             /\ pc = "idle"
             /\ pc' = "retrying"
             /\ row.retry_count < row.max_retries
             /\ row2.retry_count = row.retry_count + 1
             /\ row2.max_retries = row.max_retries
             /\ row2.stages = <<>>
             /\ row2.completed_at = FALSE
             /\ row2.errors = <<>>
             /\ row2.result = EmptyResult
             /\ job' = row2
       /\ pc = "retrying" =>
             /\ pc' = "loop"
             /\ idx' = 1
             /\ events' = <<>>
             /\ job' = job
             /\ ordered'[1] = processors[StageOrder[1]]

\* C5: retry_job changes the Job only while retry_count < max_retries,
\* increments retry_count by exactly one, clears stage history, completed_at,
\* errors and result, and re-runs from the first registered stage;
\* retry_count never exceeds max_retries
C5_RetryBounded == []C5_RetryInv /\ [][C5_RetryStep]_vars

\* a retried run has returned with retry_count at its maximum of at least one
C5_Witness ==
    /\ caller = "retry"
    /\ pc = "returned"
    /\ job.retry_count = job.max_retries
    /\ job.retry_count >= 1
    /\ job.stages # <<>>

\* C6: no exception of a stage leaves process_document, and whenever
\* can_process or process raised the run has ended with the Job FAILED, the
\* Document FAILED and one rollback call
C6_NoExceptionPropagates ==
    /\ pc # "raised"
    /\ \A i \in EventIdx :
          events[i].res = "raise" =>
              /\ pc = "returned"
              /\ job.status = "failed"
              /\ document.status = "failed"
              /\ Len(rollbacks) = 1

\* C7: every process call is followed at once by the cleanup of the same
\* stage and by no other, every cleanup follows a process call, no stage is
\* cleaned up twice, and after a cleanup that raised the run stands where the
\* outcome of process alone puts it: on success at the next processor with the
\* Job PROCESSING (COMPLETED once the last stage is passed), otherwise returned
\* with the Job FAILED
C7_CleanupExactlyOnce ==
    /\ \A i \in EventIdx :
          /\ events[i].op = "process" =>
                /\ i < Len(events)
                /\ events[i + 1].op = "cleanup"
                /\ events[i + 1].stage = events[i].stage
          /\ events[i].op = "cleanup" =>
                /\ i > 1
                /\ events[i - 1].op = "process"
                /\ events[i - 1].stage = events[i].stage
    /\ \A s \in Stages :
          Cardinality({i \in EventIdx : events[i].op = "cleanup" /\ events[i].stage = s})
              <= 1
    /\ cleanup_result = "raise" =>
          /\ Len(events) >= 2
          /\ events[Len(events)].op = "cleanup"
          /\ IF events[Len(events) - 1].res = "ok"
             THEN /\ idx > 1
                  /\ StageOf(ordered[idx - 1]) = events[Len(events)].stage
                  /\ \/ pc = "loop" /\ job.status = "processing"
                     \/ pc = "returned" /\ idx > Len(ordered) /\ job.status = "completed"
             ELSE /\ pc = "returned"
                  /\ job.status = "failed"

\* the cleanup of a stage that failed has run, and it raised
C7_Witness ==
    /\ cleanup_result = "raise"
    /\ Len(events) >= 2
    /\ events[Len(events) - 1].op = "process"
    /\ events[Len(events) - 1].res = "fail"
    /\ events[Len(events)].op = "cleanup"

\* C8, state part: process is never called on a stage whose can_process
\* returned false
C8_SkipInv ==
    \A i, k \in EventIdx :
        (events[i].op = "can_process" /\ events[i].res = "false") =>
            ~(events[k].op = "process" /\ events[k].stage = events[i].stage)

\* C8, step part: the step in which can_process returns false appends the
\* stage to skipped_stages, leaves status, current_stage, progress and stage
\* history as they were, persists that, and moves on to the next processor
C8_SkipStep ==
    ( /\ pc = "loop"
      /\ Len(events') = Len(events) + 1
      /\ events'[Len(events')].op = "can_process"
      /\ events'[Len(events')].res = "false" )
    => /\ job'.skipped_stages = Append(job.skipped_stages, events'[Len(events')].stage)
       /\ job'.status = job.status
       /\ job'.current_stage = job.current_stage
       /\ job'.progress_percent = job.progress_percent
       /\ job'.stages = job.stages
       /\ jobs_table'[1].skipped_stages = job'.skipped_stages
       /\ jobs_table'[1].status = job.status
       /\ jobs_table'[1].current_stage = job.current_stage
       /\ idx' = idx + 1
       /\ pc' = "loop"

\* C8: a stage whose can_process returns false is appended to the skipped
\* list, the run continues with the next stage, the Job's status,
\* current_stage, progress and stage history stay as they were, and process is
\* never called on that stage
C8_SkipLeavesJob == []C8_SkipInv /\ [][C8_SkipStep]_vars

\* a stage was skipped after an earlier stage had run, and a later one ran
C8_Witness ==
    \E h, i, k \in EventIdx :
        /\ h < i /\ i < k
        /\ events[h].op = "process" /\ events[h].res = "ok"
        /\ events[i].op = "can_process" /\ events[i].res = "false"
        /\ events[k].op = "process"
        /\ Len(job.skipped_stages) = 1

\* C9, step part: the persisted status of a Job changes only from QUEUED to
\* PROCESSING, from PROCESSING to a terminal status, or from a terminal status
\* back to QUEUED in retry_job
C9_StatusStep ==
    (jobs_table # <<>> /\ jobs_table' # <<>>
        /\ jobs_table'[1].status # jobs_table[1].status)
    => LET a == jobs_table[1].status
           b == jobs_table'[1].status
       IN \/ a = "queued" /\ b = "processing"
          \/ a = "processing" /\ b \in TerminalStatuses
          \/ a \in TerminalStatuses /\ b = "queued" /\ pc' = "retrying"

\* C9: a Job's status only moves QUEUED -> PROCESSING -> {COMPLETED, FAILED,
\* REVIEW_REQUIRED, CANCELLED}; once terminal only retry_job changes it, so a
\* COMPLETED Job never becomes FAILED
C9_JobStatusOrder == [][C9_StatusStep]_vars

\* C10, state part: while a run is at its stages the Document is PROCESSING
C10_ProcessingInv ==
    pc \in {"loop", "stage"} =>
        document.status = "processing" /\ docs_table[1].status = "processing"

\* C10, step part: the persisted status of a Document changes only from
\* PENDING to PROCESSING or from PROCESSING to COMPLETED or FAILED
C10_StatusStep ==
    docs_table'[1].status # docs_table[1].status =>
        LET a == docs_table[1].status
            b == docs_table'[1].status
        IN \/ a = "pending" /\ b = "processing"
           \/ a = "processing" /\ b \in {"completed", "failed"}

\* C10: a Document's status only moves PENDING -> PROCESSING -> {COMPLETED,
\* FAILED}: it is PROCESSING while a Job runs stages, and never reaches
\* COMPLETED or FAILED directly from PENDING
C10_DocumentStatusOrder == []C10_ProcessingInv /\ [][C10_StatusStep]_vars

\* the events in which a stage was started: can_process returned true
StartedIdx == {i \in EventIdx : events[i].op = "can_process" /\ events[i].res = "true"}

\* the last stage started in the run
LastStarted == events[CHOOSE i \in StartedIdx : \A k \in StartedIdx : k <= i].stage

\* a pipeline run is under way or has just ended
InRun == pc \in {"loop", "stage", "returned", "raised"}

\* C11 as stated: in every state of a run in which a stage has been started,
\* current_stage is the last stage started
C11_CurrentStageIsLastStarted ==
    (InRun /\ StartedIdx # {}) => job.current_stage = LastStarted

\* C11 amended: in a run, current_stage is the last stage started exactly
\* while the Job is PROCESSING; it is PENDING while the Job is QUEUED, when no
\* stage has been started, and it is the pseudo-stage COMPLETED or FAILED once
\* the Job is COMPLETED or FAILED; a skipped stage is never current_stage
C11_CurrentStageWhileProcessing ==
    InRun =>
        /\ job.status \in {"queued", "processing", "completed", "failed"}
        /\ job.status = "queued" => job.current_stage = "pending" /\ StartedIdx = {}
        /\ job.status = "processing" => StartedIdx # {} /\ job.current_stage = LastStarted
        /\ job.status = "completed" => job.current_stage = "completed"
        /\ job.status = "failed" => job.current_stage = "failed"
        /\ \A i \in EventIdx :
              (events[i].op = "can_process" /\ events[i].res = "false") =>
                  job.current_stage # events[i].stage

\* a stage has just been skipped after another one ran, and the Job is
\* PROCESSING with the earlier stage as current_stage
C11_Witness ==
    /\ pc = "loop"
    /\ job.status = "processing"
    /\ Len(events) >= 4
    /\ events[Len(events)].op = "can_process"
    /\ events[Len(events)].res = "false"
    /\ job.current_stage = LastStarted

\* history h2 keeps every entry of h1 in its place
Extends(h2, h1) ==
    /\ Len(h2) >= Len(h1)
    /\ \A i \in 1..Len(h1) :
          h2[i].stage = h1[i].stage /\ h2[i].started_at = h1[i].started_at

\* no entry of the history started before the entry in front of it
TimeOrdered(h) ==
    \A i \in 1..(Len(h) - 1) : h[i].started_at <= h[i + 1].started_at

\* two consecutive finished entries of the same stage, one failed and one not
ConsecutiveDiffer(h) ==
    \E i \in 1..(Len(h) - 1) :
        /\ h[i].stage = h[i + 1].stage
        /\ h[i].completed_at /\ h[i + 1].completed_at
        /\ (h[i].error = "none") # (h[i + 1].error = "none")

\* no run but the running one can have brought the Job to a terminal status:
\* no other task exists, or the other task is in the middle of the only run it
\* has made
NoTerminalBefore ==
    \/ sched.parked = <<>>
    \/ /\ sched.polls <= 1
       /\ sched.parked[1].pc \in {"loop", "stage"}
       /\ sched.parked[1].job.status \in {"queued", "processing"}

\* C12, state part: the entries of the history, of the Job object and of the
\* row, are in the order of their start times, and the same stage is not in
\* two consecutive entries with different outcomes when the Job has not been
\* terminal in between
C12_HistoryInv ==
    /\ TimeOrdered(job.stages)
    /\ jobs_table # <<>> => TimeOrdered(jobs_table[1].stages)
    /\ (InRun /\ NoTerminalBefore) =>
          /\ ~ConsecutiveDiffer(job.stages)
          /\ ~ConsecutiveDiffer(jobs_table[1].stages)

\* C12, step part: a step of a run keeps every entry the Job object has, and
\* every step but the reset of retry_job keeps every entry the row has
C12_HistoryStep ==
    /\ (sched'.active = sched.active /\ pc \in {"loop", "stage"}) =>
          Extends(job'.stages, job.stages)
    /\ (jobs_table # <<>> /\ jobs_table' # <<>> /\ pc' # "retrying") =>
          Extends(jobs_table'[1].stages, jobs_table[1].stages)

\* C12: a Job's stage history is append-only and non-decreasing in time: no
\* entry is removed or reordered within a run, no entry starts before the one
\* in front of it, and the same stage is never in two consecutive entries with
\* different outcomes unless the Job was terminal in between
C12_HistoryAppendOnly == []C12_HistoryInv /\ [][C12_HistoryStep]_vars


\* the process call of event i belongs to the given stage
ProcessedAt(i, stage) == events[i].op = "process" /\ events[i].stage = stage

\* C13: when the image_processing stage returns a failure result, the Job is
\* not FAILED, a warning is on the context, and the run goes on: it has not
\* ended unless every later registered stage was visited
C13_ImageFailureNonCritical ==
    \A i \in EventIdx :
        (ProcessedAt(i, "image_processing") /\ FailedAt(i)) =>
            /\ job.status # "failed"
            /\ Len(context.warnings) > 0
            /\ (pc = "returned" => idx > Len(ordered))

\* a processor of class cls was processed with result r
StageResult(cls, r) ==
    \E i \in EventIdx : ProcessedAt(i, StageOf(cls)) /\ events[i].res = r

\* OCRProcessor ran in this run and measured a confidence under the threshold
LowConfidence ==
    /\ InRun
    /\ \E p \in 1..Len(ordered) : ordered[p] = "OCRProcessor"
    /\ \E i \in EventIdx : ProcessedAt(i, "ocr")
    /\ context.ocr_confidence \in 0..(ConfidenceThreshold - 1)

\* the event after the cleanup of the OCR stage, if any
AfterOcr(i) == ProcessedAt(i, "ocr") /\ Len(events) >= i + 2

\* C14: when OCRProcessor measured a confidence under the threshold, the
\* result of the stage is a success, the warnings on the context are exactly
\* the one of the OCR stage, the next registered stage is visited
\* (metadata_extraction at the latest when LLMExtractor is registered), and,
\* as long as no repository call raises, the history entry of the stage has no
\* error and the Job is FAILED only when a stage after OCR failed
C14_LowConfidenceContinues ==
    LowConfidence =>
        /\ \A i \in EventIdx : ProcessedAt(i, "ocr") => events[i].res = "ok"
        /\ context.warnings = <<"low_ocr_confidence">>
        /\ \A i \in EventIdx :
              AfterOcr(i) =>
                 /\ events[i + 2].op = "can_process"
                 /\ Pos(events[i + 2].stage) > Pos("ocr")
                 /\ (\E p \in 1..Len(ordered) : ordered[p] = "LLMExtractor")
                      => Pos(events[i + 2].stage) <= Pos("metadata_extraction")
        /\ ~faults =>
              /\ \E k \in 1..Len(job.stages) :
                    job.stages[k].stage = "ocr" /\ job.stages[k].error = "none"
              /\ job.status = "failed" =>
                    \E i \in EventIdx : FailedAt(i) /\ Pos(events[i].stage) > Pos("ocr")

\* a run with a confidence under the threshold went on to process the
\* metadata_extraction stage and was completed
C14_Witness ==
    /\ LowConfidence
    /\ StageResult("LLMExtractor", "ok")
    /\ job.status = "completed"
    /\ context.warnings = <<"low_ocr_confidence">>


\* every condition of the rule holds for the metadata map of the call
AllConditionsHold(rule) ==
    \A k \in 1..Len(rule.conditions) :
        /\ rule.conditions[k].type \in {"always", "due_date_within_days", "has_due_date",
                                        "document_type", "keywords_any", "field_equals"}
        /\ evaluate_condition(rule.conditions[k], urgency_call.metadata)

\* the positions of the rules all of whose conditions hold
MatchingRules ==
    {k \in 1..Len(urgency_call.rules) : AllConditionsHold(urgency_call.rules[k])}

\* C15: calculate returns the urgency of the first rule, in declared order,
\* all of whose conditions hold, a rule with a condition of an unsupported kind
\* never matching, and "low" when no rule matches
C15_FirstMatchingRuleWins ==
    urgency_call.pc = "returned" =>
        urgency_call.result =
            IF MatchingRules = {} THEN "low"
            ELSE urgency_call.rules[CHOOSE k \in MatchingRules :
                                        \A o \in MatchingRules : k <= o].urgency

\* the rules [due_date_within_days = 3 -> critical, always -> low] with a due
\* date one day from today gave "critical"
C15_Witness ==
    /\ urgency_call.pc = "returned"
    /\ urgency_call.rules = <<Rule("critical", <<DueWithin(3)>>), Rule("low", <<Always>>)>>
    /\ DateParser_parse(urgency_call.metadata.due_date) = Day(1)
    /\ urgency_call.result = "critical"


\* the names _fetch_correspondents gave to match_sender
Fetched == {matcher_call.correspondents[k] : k \in 1..Len(matcher_call.correspondents)}

\* the extracted name as match_sender returns it when nothing matches
Original ==
    IF matcher_call.extracted = "none" THEN "none" ELSE Strip(matcher_call.extracted)

\* the model was asked and gave a text
Answered == matcher_call.answer \notin {"unasked", "none", "raise"}

\* the extracted name is a listed name but for the case of its letters
ExactMatchOf(name) == Lower(name) = Lower(Original)

\* the answer of the model is a listed name, verbatim or but for the case
AnswerNames(name) ==
    /\ Answered
    /\ Strip(matcher_call.answer) # "NEW"
    /\ Lower(Strip(matcher_call.answer)) = Lower(name)

\* C16: match_sender returns a fetched name or the stripped original; a
\* fetched name other than the original only on an exact case-insensitive
\* match or when the answer of the model is that name, verbatim or
\* case-insensitively; and the original when the list is empty, when the
\* fetch failed, when the model call failed, and when the answer is "NEW" or
\* no listed name
C16_MatchOrOriginal ==
    matcher_call.pc = "returned" =>
        LET r == matcher_call.result
        IN /\ r \in Fetched \cup {Original}
           /\ r # Original => ExactMatchOf(r) \/ AnswerNames(r)
           /\ ( \/ Fetched = {}
                \/ matcher_call.fetch_failed
                \/ matcher_call.answer \in {"none", "raise"}
                \/ Answered /\ \A name \in Fetched : ~AnswerNames(name) )
              => r = Original


\* C17: when the second of two finalizations of the same document has
\* returned, the archive holds the tags on the document and the tag,
\* correspondent and document-type entities it held after the first, and the
\* second run made no create call
C17_FinalizeTwiceIdempotent ==
    (finalize_call.run = 2 /\ finalize_call.pc = "done") =>
        /\ ArchiveState(finalize_call) = finalize_call.first[1]
        /\ finalize_call.creates = <<>>

\* C18: after a successful finalization the document has the review tag when
\* the OCR confidence is under the minimum or the metadata has no document
\* type or no sender, and the urgency tag when the urgency is critical
C18_ReviewAndUrgencyMarkers ==
    finalize_call.pc = "done" =>
        /\ ( \/ finalize_call.ocr_confidence < ConfidenceThreshold
             \/ finalize_call.metadata.document_type = "none"
             \/ finalize_call.metadata.sender = "none" )
           => review_tag \in finalize_call.doc_tags
        /\ finalize_call.metadata.urgency = "critical"
           => UrgencyTag("critical") \in finalize_call.doc_tags


\* C20: at no time are two tasks each inside a stage of the same Job: the
\* running task and the suspended task are never both between the start of a
\* stage and its result
C20_OneTaskPerJob ==
    ~ ( /\ sched.parked # <<>>
        /\ pc = "stage"
        /\ sched.parked[1].pc = "stage" )


\* the state of the i-th task of the call, "none" when there is no such task
TaskState(i) == IF i <= Len(pool.tasks) THEN pool.tasks[i] ELSE "none"

\* C19, state part: never more than max_concurrent tasks are inside
\* process_job, and once the call has returned every fetched job was handed
\* to process_job and its call has ended
C19_PoolInv ==
    /\ Cardinality(Running) <= pool.max_concurrent
    /\ pool.pc = "returned" =>
          /\ Len(pool.tasks) = pool.pending
          /\ \A i \in 1..Len(pool.tasks) : pool.tasks[i] \in {"finished", "raised"}
          /\ pool.result =
                Cardinality({i \in 1..Len(pool.tasks) : pool.tasks[i] = "finished"})

\* C19: at most max_concurrent process_job calls are in progress at any time,
\* every fetched job is eventually handed to process_job (no task waits for
\* ever), and the call returns, only after all of them have ended
C19_BoundedConcurrency ==
    /\ []C19_PoolInv
    /\ \A i \in 1..MaxPending : (TaskState(i) = "waiting") ~> (TaskState(i) = "running")
    /\ <>(pool.pc = "returned")

\* max_concurrent tasks are inside process_job while another task waits
C19_Witness ==
    /\ pool.pc = "gather"
    /\ Cardinality(Running) = pool.max_concurrent
    /\ \E i \in 1..Len(pool.tasks) : pool.tasks[i] = "waiting"
    /\ \E i \in 1..Len(pool.tasks) : pool.tasks[i] \in {"finished", "raised"}


(***************************************************************************)
(* C21: a process_job call on a Job whose row is COMPLETED, CANCELLED or   *)
(* FAILED ends at once: process_document is not called and the rows of the *)
(* Job and of its Document stay as they were; whenever the worker calls    *)
(* process_document, the Job it fetched was in none of these states        *)
(***************************************************************************)
C21_TerminalJobNotProcessed ==
    [][/\ (/\ worker_call'.calls = worker_call.calls + 1
           /\ JobRows(jobs_table, worker_call'.job_id) # <<>>
           /\ JobRows(jobs_table, worker_call'.job_id)[1].status
                 \in {"completed", "cancelled", "failed"})
          => /\ worker_call'.pc = "done"
             /\ worker_call'.outcome = "terminal"
             /\ pc' = "idle"
             /\ jobs_table' = jobs_table
             /\ docs_table' = docs_table
             /\ UNCHANGED <<job, document, context, events, caller>>
       /\ (worker_call'.outcome = "invoked" /\ worker_call.outcome # "invoked")
          => worker_call.job.status \notin {"completed", "cancelled", "failed"}]_vars

\* a process_job call has returned for a CANCELLED Job and its row is as it was
C21_Witness ==
    /\ worker_call.outcome = "terminal"
    /\ worker_call.job.status = "cancelled"
    /\ jobs_table = <<worker_call.job>>
    /\ pc = "idle"


(***************************************************************************)
(* C30 as stated: once process_job has found the Document of its Job       *)
(* missing, the Job is FAILED with an error message                        *)
(***************************************************************************)
C30_MissingDocumentMarksFailed ==
    worker_call.outcome = "document_not_found"
        => /\ jobs_table # <<>>
           /\ jobs_table[1].status = "failed"
           /\ jobs_table[1].errors # <<>>

(***************************************************************************)
(* C30, amended: a process_job call that finds the Document of its Job     *)
(* missing does not call process_document and asks update_status for       *)
(* FAILED with "Document not found", which writes the row only if the Job  *)
(* still exists; a call with an id no Job has returns and changes nothing  *)
(***************************************************************************)
C30_MissingRowsEndTheCall ==
    [][/\ (worker_call'.outcome = "document_not_found"
              /\ worker_call.pc = "get_document")
          => /\ worker_call'.pc = "done"
             /\ docs_table = <<>>
             /\ pc' = "idle"
             /\ docs_table' = docs_table
             /\ UNCHANGED <<job, document, context, events, caller>>
             /\ jobs_table' =
                  IF jobs_table = <<>> THEN <<>>
                  ELSE <<[jobs_table[1] EXCEPT
                            !.status = "failed",
                            !.completed_at = TRUE,
                            !.errors = Append(@, "Document not found")]>>
       /\ (/\ worker_call'.calls = worker_call.calls + 1
           /\ (worker_call'.job_id = 2 \/ jobs_table = <<>>))
          => /\ worker_call'.pc = "done"
             /\ worker_call'.outcome = "job_not_found"
             /\ UNCHANGED pipeline_vars]_vars

\* process_job found the Document missing: the Job was deleted with it and
\* no row is FAILED
C30_Witness ==
    /\ worker_call.outcome = "document_not_found"
    /\ worker_call.job.status = "queued"
    /\ docs_table = <<>>
    /\ jobs_table = <<>>
    /\ pc = "idle"


(***************************************************************************)
(* C22: every model call of an extraction sends at most max_retries        *)
(* requests; a call that met a timeout or a refused connection has sent    *)
(* max_retries requests when it fails with LLMError; once a chat call has  *)
(* failed with LLMError the extraction stage ends as failed                *)
(***************************************************************************)
C22_TransientRetriedThenStageFails ==
    \A i \in 1..Len(llm_call.calls) :
       LET call == llm_call.calls[i]
       IN /\ call.requests <= llm_call.max_retries
          /\ call.answer \in {"timeout", "connect_error"}
                => call.error = "LLMError" /\ call.requests = llm_call.max_retries
          /\ (/\ llm_call.pc = "done"
              /\ call.kind \in {"chat", "chat_vl"}
              /\ call.error = "LLMError")
                => llm_call.stage = "fail"


\* lo <= n / d <= hi for a fraction x = <<n, d>> with d > 0
InRange(x, lo, hi) == x[2] > 0 /\ lo * x[2] <= x[1] /\ x[1] <= hi * x[2]

(***************************************************************************)
(* C23 as stated: every per-field confidence, the overall confidence and   *)
(* the OCR confidence of the context lie in [0, 1]                         *)
(***************************************************************************)
C23_AllConfidencesInUnitInterval ==
    /\ \A p \in llm_call.confidence : InRange(p[2], 0, 1)
    /\ llm_call.overall # NoConfidence => InRange(llm_call.overall, 0, 1)
    /\ llm_call.ocr_confidence # NoConfidence => InRange(llm_call.ocr_confidence, 0, 1)

(***************************************************************************)
(* C23, amended: every per-field confidence and the overall confidence lie *)
(* in [0, 1]; the OCR confidence is a percentage in [0, 100], and it is 95 *)
(* once a vision-mode extraction has succeeded                             *)
(***************************************************************************)
C23_ConfidenceRanges ==
    /\ \A p \in llm_call.confidence : InRange(p[2], 0, 1)
    /\ llm_call.overall # NoConfidence => InRange(llm_call.overall, 0, 1)
    /\ llm_call.ocr_confidence # NoConfidence
          => InRange(llm_call.ocr_confidence, 0, 100)
    /\ (llm_call.vision /\ llm_call.stage = "ok") => llm_call.ocr_confidence = <<95, 1>>
    /\ llm_call.stage = "ok" => llm_call.overall # NoConfidence

\* a vision-mode extraction has succeeded with two scores of different weight
C23_Witness ==
    /\ llm_call.vision
    /\ llm_call.stage = "ok"
    /\ Cardinality(llm_call.confidence) = 2
    /\ \E p \in llm_call.confidence : p[1] = "sender"
    /\ \E p \in llm_call.confidence : p[1] = "keywords"
    /\ llm_call.overall \notin {<<0, 1>>, NoConfidence}
    /\ llm_call.ocr_confidence = <<95, 1>>


\* the names of the configured fields of the extraction
FieldNames == {llm_call.fields[i].name : i \in 1..Len(llm_call.fields)}

\* the parsed response of the chat call holds a valid value for every field
ResponseValid ==
    /\ Len(llm_call.response) = Len(llm_call.fields)
    /\ \A i \in 1..Len(llm_call.fields) :
          llm_call.response[i] \in ValidValues(llm_call.fields[i].type)

(***************************************************************************)
(* C24: when the structured extraction has returned from a response with a *)
(* valid value for each of the N configured fields, the metadata map has   *)
(* exactly the N field names as keys, none of them with a null value, and  *)
(* the confidence map has the same N keys                                  *)
(***************************************************************************)
C24_ValidResponseKeepsEveryField ==
    (/\ llm_call.stage = "ok"
     /\ llm_call.parsed_by # "none"
     /\ llm_call.steps \in {<<"strict">>, <<"strict", "span">>}
     /\ ResponseValid)
       => /\ Keys(llm_call.extracted) = FieldNames
          /\ Cardinality(llm_call.extracted) = Len(llm_call.fields)
          /\ \A p \in llm_call.extracted : p[2] # "None"
          /\ Keys(llm_call.confidence) = FieldNames
          /\ Cardinality(llm_call.confidence) = Len(llm_call.fields)

\* a text-mode extraction has returned two fields from the valid values 0 and false
C24_Witness ==
    /\ ~llm_call.vision
    /\ llm_call.stage = "ok"
    /\ llm_call.steps = <<"strict">>
    /\ Len(llm_call.fields) = 2
    /\ llm_call.fields[1].name = "total_amount"
    /\ llm_call.fields[2].name = "tax_relevant"
    /\ llm_call.response = <<"zero", "false">>
    /\ Keys(llm_call.extracted) = {"tax_relevant", "total_amount"}


\* the place of a recovery step in the order of the claim
StepRank(step) ==
    CASE step = "strict" -> 1
      [] step = "span" -> 2
      [] OTHER -> 3

(***************************************************************************)
(* C27: the recovery steps of an extraction are taken in the order strict  *)
(* parse, parse of the {...} span, per-field extraction; the per-field     *)
(* extraction runs in text mode only and never after a parse succeeded;    *)
(* an extraction none of whose model calls succeeded ends as a failed      *)
(* stage                                                                   *)
(***************************************************************************)
C27_RecoveryOrderThenFailure ==
    /\ \A i \in 1..Len(llm_call.steps), j \in 1..Len(llm_call.steps) :
          i < j => StepRank(llm_call.steps[i]) < StepRank(llm_call.steps[j])
    /\ (\E i \in 1..Len(llm_call.steps) : llm_call.steps[i] = "per_field")
          => ~llm_call.vision /\ llm_call.parsed_by = "none"
    /\ (/\ llm_call.pc = "done"
        /\ \A i \in 1..Len(llm_call.calls) : llm_call.calls[i].error # "none")
          => llm_call.stage = "fail"


\* the Document of the run is in the archive already, or came from its webhook
InArchive == document.paperless_id # NoId \/ document.source = "paperless_webhook"

\* event i is the can_process call on the upload stage, and it returned false
UploadSkippedAt(i) ==
    /\ events[i].op = "can_process"
    /\ events[i].stage = "paperless_upload"
    /\ events[i].res = "false"

(***************************************************************************)
(* C25: when the run reaches the upload stage with a Document that has an  *)
(* archive id or came from the webhook, can_process returns false and      *)
(* leaves the Document's archive id on the context; from then on to the    *)
(* end of the run process of the upload stage is not called and the        *)
(* context's archive id equals the Document's                              *)
(***************************************************************************)
C25_ArchivedDocumentNotUploaded ==
    /\ []((InRun /\ InArchive /\ \E i \in EventIdx : UploadSkippedAt(i))
            => /\ context.paperless_id = document.paperless_id
               /\ \A i \in EventIdx : ~ProcessedAt(i, "paperless_upload"))
    /\ [][(/\ InArchive
           /\ Len(events') = Len(events) + 1
           /\ events'[Len(events')].stage = "paperless_upload")
            => /\ events'[Len(events')].op = "can_process"
               /\ events'[Len(events')].res = "false"
               /\ context'.paperless_id = document.paperless_id
               /\ document' = document]_vars

\* an uploaded Document is processed again: the upload stage was skipped and
\* the extraction stage has run with the archive id on the context
C25_Witness ==
    /\ InRun
    /\ document.source = "upload"
    /\ document.paperless_id = ArchiveId
    /\ context.paperless_id = ArchiveId
    /\ \E i \in EventIdx : UploadSkippedAt(i)
    /\ \E i \in EventIdx : ProcessedAt(i, "metadata_extraction")


\* the calls made on the registry that write the entry of a stage
Touches(stage) ==
    {i \in 1..Len(registry_call.calls) :
        LET call == registry_call.calls[i]
        IN \/ call.op = "clear"
           \/ call.op = "unregister" /\ call.arg = stage
           \/ call.op = "register" /\ call.arg \in ProcessorClasses
                                   /\ StageOf(call.arg) = stage}

\* the class most recently registered for a stage and not removed since
LastRegistered(stage) ==
    IF Touches(stage) = {} THEN "none"
    ELSE LET k == CHOOSE i \in Touches(stage) : \A j \in Touches(stage) : j <= i
         IN IF registry_call.calls[k].op = "register" THEN registry_call.calls[k].arg
            ELSE "none"

(***************************************************************************)
(* C26: after any calls of register, unregister and clear, a stage has an  *)
(* entry in the registry exactly if a class was registered for it and not  *)
(* removed since, and the entry is the class registered last; the list a   *)
(* get_ordered_processors call returns holds the class of each registered  *)
(* stage exactly once and nothing else                                     *)
(***************************************************************************)
C26_LastRegistrationWins ==
    /\ \A stage \in Stages :
          IF LastRegistered(stage) = "none"
          THEN stage \notin DOMAIN registry_call.processors
          ELSE /\ stage \in DOMAIN registry_call.processors
               /\ registry_call.processors[stage] = LastRegistered(stage)
    /\ (/\ registry_call.calls # <<>>
        /\ registry_call.calls[Len(registry_call.calls)].op = "get_ordered_processors")
          => /\ \A stage \in Stages :
                  Cardinality({i \in 1..Len(registry_call.ordered) :
                                  StageOf(registry_call.ordered[i]) = stage})
                    = IF LastRegistered(stage) = "none" THEN 0 ELSE 1
             /\ \A i \in 1..Len(registry_call.ordered) :
                  registry_call.ordered[i] = LastRegistered(StageOf(registry_call.ordered[i]))

\* a second class was registered for the stage of the first, and the list
\* returned afterwards holds the second only
C26_Witness ==
    /\ Len(registry_call.calls) = 3
    /\ registry_call.calls[1] = [op |-> "register", arg |-> "ImageProcessor"]
    /\ registry_call.calls[2] = [op |-> "register", arg |-> "CustomImage"]
    /\ registry_call.calls[3].op = "get_ordered_processors"
    /\ registry_call.ordered = <<"CustomImage">>


\* the positions of the events where process of a stage was called
ProcessCalls(stage) ==
    {i \in 1..Len(events) : events[i].op = "process" /\ events[i].stage = stage}

\* the OCR stage of the run is OCRProcessor
OcrIsBuiltin == \E k \in 1..Len(ordered) : ordered[k] = "OCRProcessor"

\* this step calls process of the extraction stage
ExtractionCalled ==
    /\ pc = "stage"
    /\ pc' # "stage" \/ idx' # idx
    /\ StageOf(ordered[idx]) = "metadata_extraction"

(***************************************************************************)
(* C28: in vision mode OCRProcessor is skipped in every run and the        *)
(* extraction is called on a context without OCR text; after a successful  *)
(* extraction in vision mode the OCR text of the context and of the        *)
(* Document is the text the model returned; in text mode the extraction is *)
(* called only on a context with non-empty OCR text; no run holds both a   *)
(* process call of OCRProcessor and a process call of the extraction in    *)
(* vision mode                                                             *)
(***************************************************************************)
C28_Inv ==
    /\ (settings.vision /\ OcrIsBuiltin) =>
          \A i \in 1..Len(events) :
             events[i].stage = "ocr" =>
                events[i].op = "can_process" /\ events[i].res = "false"
    /\ settings.vision =>
          \A i \in ProcessCalls("metadata_extraction") :
             events[i].res = "ok" =>
                /\ context.ocr_text = events[i].text
                /\ document.ocr_text = events[i].text
                /\ (job.status = "completed" /\ pc = "returned" /\ docs_table # <<>>)
                      => docs_table[1].ocr_text = events[i].text
    /\ ~ /\ settings.vision
         /\ OcrIsBuiltin
         /\ ProcessCalls("ocr") # {}
         /\ ProcessCalls("metadata_extraction") # {}

C28_Step ==
    ExtractionCalled =>
       IF settings.vision THEN context.ocr_text = "none"
       ELSE context.ocr_text = "text"

C28_VisionReplacesOcr == []C28_Inv /\ [][C28_Step]_vars

\* a run in vision mode skipped OCRProcessor, the extraction succeeded and
\* the model returned a text, and the run completed
C28_Witness ==
    /\ settings.vision
    /\ OcrIsBuiltin
    /\ \E i \in 1..Len(events) :
          events[i] = [op |-> "can_process", stage |-> "ocr", res |-> "false"]
    /\ \E i \in ProcessCalls("metadata_extraction") :
          events[i].res = "ok" /\ events[i].text = "text"
    /\ context.ocr_text = "text"
    /\ job.status = "completed"
    /\ pc = "returned"


(***************************************************************************)
(* C29: the match_sender calls made on one SenderMatcher at one instant    *)
(* fetch the correspondents from the archive at most once; the list of a   *)
(* fetch never holds more than max_correspondents names, and a fetch ends  *)
(* after at most max_correspondents requests                               *)
(***************************************************************************)
C29_FetchedOncePerTtl ==
    /\ matcher_call.fetches <= 1
    /\ Len(matcher_call.correspondents) <= MaxCorrespondents
    /\ matcher_call.requests <= MaxCorrespondents


C32_FailedJobFailedDocument ==
    (pc = "returned" /\ job.status = "failed")
        => /\ document.status = "failed"
           /\ docs_table # <<>> => docs_table[1].status = "failed"


(***************************************************************************)
(* C33: in one process_document run _update_paperless_tags_on_failure is   *)
(* called at most once, and only in a run that ends with the Job FAILED;   *)
(* in a run that ends COMPLETED it is never called                         *)
(***************************************************************************)
C33_RollbackAtMostOnce ==
    /\ Len(rollbacks) <= 1
    /\ (rollbacks # <<>> /\ pc \in {"returned", "raised"}) => job.status = "failed"
    /\ job.status = "completed" => rollbacks = <<>>


(***************************************************************************)
(* C34: at no time are two Jobs of the same Document inside process_job    *)
(***************************************************************************)
C34_OneRunningJobPerDocument ==
    \A i \in Running : \A j \in Running :
        i # j => pool.documents[i] # pool.documents[j]


(***************************************************************************)
(* C35: a Job whose row has reached COMPLETED, FAILED or CANCELLED keeps a *)
(* terminal status, so that get_pending_jobs, which returns the QUEUED and *)
(* PROCESSING rows, never returns it to the worker loop again              *)
(***************************************************************************)
C35_TerminalJobNeverPendingAgain ==
    [][(jobs_table # <<>> /\ jobs_table[1].status \in {"completed", "failed", "cancelled"})
          => (jobs_table' = <<>>
              \/ jobs_table'[1].status \in {"completed", "failed", "cancelled"})]_vars


(***************************************************************************)
(* C36: for any interleaving of webhook deliveries at most one Document    *)
(* exists per archive id, and a Document has at most one Job created with  *)
(* it                                                                      *)
(***************************************************************************)
C36_OneDocumentPerArchiveId ==
    /\ \A id \in WebhookIds : Cardinality(RowsOf(webhook_call.documents, id)) <= 1
    /\ \A k \in 1..Len(webhook_call.documents) :
          Cardinality({j \in 1..Len(webhook_call.jobs) :
                          /\ webhook_call.jobs[j].document = k
                          /\ webhook_call.jobs[j].source = "paperless_webhook"}) <= 1


\* a Job without errors whose stage history is complete and free of errors
CleanHistory(j) ==
    /\ j.errors = <<>>
    /\ \A i \in 1..Len(j.stages) :
          j.stages[i].completed_at # FALSE /\ j.stages[i].error = "none"

(***************************************************************************)
(* C37: whenever a Job is COMPLETED, the Job object and its row have no    *)
(* errors and every entry of the stage history has a completion time and   *)
(* no error                                                                *)
(***************************************************************************)
C37_CompletedJobIsClean ==
    /\ job.status = "completed" => CleanHistory(job)
    /\ (jobs_table # <<>> /\ jobs_table[1].status = "completed")
          => CleanHistory(jobs_table[1])


\* the skipped-stage list names no stage twice and no stage of the stage history
SkippedDescribesAttempt(j) ==
    /\ \A a, b \in 1..Len(j.skipped_stages) :
          j.skipped_stages[a] = j.skipped_stages[b] => a = b
    /\ \A a \in 1..Len(j.skipped_stages) : \A i \in 1..Len(j.stages) :
          j.stages[i].stage # j.skipped_stages[a]

(***************************************************************************)
(* C38: once retry_job has reset a Job, its skipped-stage list names each  *)
(* stage at most once and names no stage that ran in the new attempt       *)
(***************************************************************************)
C38_SkippedStagesOfNewAttempt ==
    (caller = "retry" /\ pc \in {"retrying", "loop", "stage", "returned"})
        => SkippedDescribesAttempt(job)


(***************************************************************************)
(* C39: when the tag mutations called for a document, each for a tag of    *)
(* its own, have all returned True, the document has every tag that was    *)
(* added and none that was removed                                         *)
(***************************************************************************)
C39_NoLostTagUpdate ==
    (\A t \in 1..Len(tag_call.tasks) : tag_call.tasks[t].result = "true")
        => \A t \in 1..Len(tag_call.tasks) :
              (tag_call.tasks[t].tag \in tag_call.doc_tags)
                  <=> tag_call.tasks[t].op = "add"

====
